---- MODULE Spec2Model ----
(***************************************************************************)
(* The tool-workflow engine of OMEGA-AI: ToolRegistry, ToolExecutor,       *)
(* WorkflowManager (src/src/modules) and the older DynamicRAGBuilder host  *)
(* (src/src/DynamicRagBuilder.ts).                                         *)
(*                                                                         *)
(* JSON values are tagged records, strings that the code parses (mapping   *)
(* values, paths) are sequences of tokens: a token is a maximal run of     *)
(* word characters, or one of ".", "[", "]", "$index".  Error messages are *)
(* sequences of the pieces the template literals interpolate.              *)
(***************************************************************************)
EXTENDS Integers, Sequences, FiniteSets, TLC

\* ------------------------------------------------------------------ bounds
\* stored workflows (uuidv4 never runs out; the registry is cut off here)
MaxWorkflows == 1
\* calls of the engine that are in progress at the same time
MaxCalls == 1
\* stored workflows when the registry is exercised on its own
MaxStored == 3
\* segments of the paths getValueFromPath is tried on
MaxPathLen == 3
\* entries of the input mappings prepareStepInput is tried on
MaxEntries == 2
\* connections the socket server accepts
MaxSockets == 2
\* messages the socket server receives
MaxRequests == 2

\* ------------------------------------------------------------ JSON values
Undef == [t |-> "undef"]
Null == [t |-> "null"]
Str(s) == [t |-> "str", s |-> s]
Num(n) == [t |-> "num", n |-> n]
Obj(f) == [t |-> "obj", o |-> f]
Arr(q) == [t |-> "arr", a |-> q]
Empty == <<>>

\* a test for null that lets undefined through
IsNullOnly(v) == v.t = "null"
\* acc === null || acc === undefined
IsNullish(v) == v.t \in {"undef", "null"}
IsArray(v) == v.t = "arr"

Range(q) == {q[i] : i \in DOMAIN q}

\* the property names of an array: its indices, as strings
ArrKeys(q) == {ToString(i - 1) : i \in DOMAIN q}
ArrIndexOf(q, key) == CHOOSE i \in DOMAIN q : ToString(i - 1) = key

\* `key in v` for an object or an array
HasProp(v, key) ==
  CASE v.t = "obj" -> key \in DOMAIN v.o
    [] v.t = "arr" -> key \in ArrKeys(v.a)
    [] OTHER -> FALSE

\* a property read that defaults a missing property to null
GetPropOrNull(v, key) ==
  CASE v.t = "obj" -> IF key \in DOMAIN v.o THEN v.o[key] ELSE Null
    [] v.t = "arr" -> IF key \in ArrKeys(v.a) THEN v.a[ArrIndexOf(v.a, key)] ELSE Null
    [] OTHER -> Null

\* v[key] for a non-nullish v
GetProp(v, key) ==
  CASE v.t = "obj" -> IF key \in DOMAIN v.o THEN v.o[key] ELSE Undef
    [] v.t = "arr" -> IF key \in ArrKeys(v.a) THEN v.a[ArrIndexOf(v.a, key)] ELSE Undef
    [] OTHER -> Undef

\* an element access that counts from one
ElementAtOneBased(q, index) == IF index \in DOMAIN q THEN q[index] ELSE Undef

\* arr[index] with a number
ElementAt(q, index) == IF index + 1 \in DOMAIN q THEN q[index + 1] ELSE Undef

\* the own enumerable properties an object spread ({...v}) copies
SpreadProps(v) ==
  CASE v.t = "obj" -> v.o
    [] v.t = "arr" -> [k \in ArrKeys(v.a) |-> v.a[ArrIndexOf(v.a, k)]]
    [] OTHER -> Empty

Override(f, g) == [k \in (DOMAIN f) \cup (DOMAIN g) |-> IF k \in DOMAIN g THEN g[k] ELSE f[k]]

\* { ...a, ...b, ...c }
Spread3(a, b, c) == Obj(Override(Override(SpreadProps(a), SpreadProps(b)), SpreadProps(c)))

\* --------------------------------------------------------------- errors
Error(msg) == [name |-> "Error", msg |-> msg]
TypeError(msg) == [name |-> "TypeError", msg |-> msg]
Ok(v) == [ok |-> TRUE, v |-> v]
Throw(e) == [ok |-> FALSE, err |-> e]

\* ------------------------------------------------------- path strings
RECURSIVE JoinTokens(_)
JoinTokens(p) == IF p = <<>> THEN "" ELSE Head(p) \o JoinTokens(Tail(p))

IsWord(tok) == tok \notin {".", "[", "]", "$index", ""}
\* the \d+ tokens that occur in the mapping values of this model
Digits == {"0", "1", "2", "3"}
ParseInt(tok) == CHOOSE n \in 0..Cardinality(Digits) : ToString(n) = tok

\* path.includes("$index")
IncludesIndex(p) == \E i \in DOMAIN p : p[i] = "$index"

\* sourcePath.replace("$index", s): the first occurrence only
ReplaceIndex(p, s) ==
  IF ~IncludesIndex(p) THEN p
  ELSE LET i == CHOOSE j \in DOMAIN p : p[j] = "$index" /\ \A k \in 1..(j - 1) : p[k] # "$index"
       IN [p EXCEPT ![i] = s]

\* arrayPath.replace(/\[\$index\].*/, "")
StripIndexed(p) ==
  LET hits == {j \in DOMAIN p : j + 2 <= Len(p) /\ p[j] = "[" /\ p[j + 1] = "$index" /\ p[j + 2] = "]"}
  IN IF hits = {} THEN p
     ELSE SubSeq(p, 1, (CHOOSE j \in hits : \A k \in hits : j <= k) - 1)

\* path.startsWith(prefix + ".")
StartsWith(p, prefix) == Len(p) >= 2 /\ p[1] = prefix /\ p[2] = "."
\* path.replace(prefix + ".", "") of a path that starts with it
DropPrefix(p) == SubSeq(p, 3, Len(p))

\* a split that stops at the first dot
SplitOnce(p) ==
  LET dots == {j \in DOMAIN p : p[j] = "."}
  IN IF dots = {} THEN <<p>>
     ELSE LET d == CHOOSE j \in dots : \A k \in dots : j <= k
          IN <<SubSeq(p, 1, d - 1), SubSeq(p, d + 1, Len(p))>>

\* path.split(".")
RECURSIVE Split(_)
Split(p) ==
  LET dots == {j \in DOMAIN p : p[j] = "."}
  IN IF dots = {} THEN <<p>>
     ELSE LET d == CHOOSE j \in dots : \A k \in dots : j <= k
          IN <<SubSeq(p, 1, d - 1)>> \o Split(SubSeq(p, d + 1, Len(p)))

\* part.match(/(\w+)\[(\d+)\]/): the leftmost match, or none
MatchAt(part) ==
  {j \in DOMAIN part : j + 3 <= Len(part) /\ IsWord(part[j]) /\ part[j + 1] = "["
                       /\ part[j + 2] \in Digits /\ part[j + 3] = "]"}
ArrayIndexMatch(part) ==
  IF MatchAt(part) = {} THEN [hit |-> FALSE]
  ELSE LET j == CHOOSE m \in MatchAt(part) : \A k \in MatchAt(part) : m <= k
       IN [hit |-> TRUE, arrayName |-> part[j], index |-> ParseInt(part[j + 2])]

\* ------------------------------------------------------ getValueFromPath
\* a reducer that hands on undefined where there is nothing to read from
ResolvePartLenient(acc, part) ==
  LET key == JoinTokens(part)
      m == ArrayIndexMatch(part)
  IN IF IsNullish(acc) THEN Ok(Undef)
     ELSE IF m.hit THEN
       IF ~(acc.t \in {"obj", "arr"}) \/ ~HasProp(acc, m.arrayName) THEN Ok(Undef)
       ELSE IF ~IsArray(GetProp(acc, m.arrayName)) THEN Ok(Undef)
       ELSE Ok(ElementAt(GetProp(acc, m.arrayName).a, m.index))
     ELSE IF IsArray(acc) THEN
       IF \E i \in DOMAIN acc.a : IsNullish(acc.a[i])
       THEN Throw(TypeError(<<"Cannot read properties of undefined (reading '", key, "')">>))
       ELSE Ok(Arr([i \in DOMAIN acc.a |-> GetProp(acc.a[i], key)]))
     ELSE Ok(GetProp(acc, key))

\* one step of the reducer; the result is Ok(value) or Throw(error)
ResolvePart(acc, part) ==
  LET key == JoinTokens(part)
      m == ArrayIndexMatch(part)
  IN IF IsNullish(acc) THEN Throw(Error(<<"Path resolution failed at ", key>>))
     ELSE IF m.hit THEN
       IF ~(acc.t \in {"obj", "arr"}) \/ ~HasProp(acc, m.arrayName) THEN Ok(Undef)
       ELSE IF ~IsArray(GetProp(acc, m.arrayName)) THEN Ok(Undef)
       ELSE Ok(ElementAt(GetProp(acc, m.arrayName).a, m.index))
     ELSE IF IsArray(acc) THEN
       IF \E i \in DOMAIN acc.a : IsNullish(acc.a[i])
       THEN Throw(TypeError(<<"Cannot read properties of undefined (reading '", key, "')">>))
       ELSE Ok(Arr([i \in DOMAIN acc.a |-> GetProp(acc.a[i], key)]))
     ELSE Ok(GetProp(acc, key))

RECURSIVE Reduce(_, _)
Reduce(res, parts) ==
  IF parts = <<>> \/ ~res.ok THEN res
  ELSE Reduce(ResolvePart(res.v, Head(parts)), Tail(parts))

getValueFromPath(obj, path) == Reduce(Ok(obj), Split(path))

\* ------------------------------------------------- JSON schema (Ajv subset)
\* a schema is {type: "object", properties: {k: {type}}, required: [...]}
TypeOk(v, type) ==
  CASE type = "string" -> v.t = "str"
    [] type = "number" -> v.t = "num"
    [] type = "array" -> v.t = "arr"
    [] type = "object" -> v.t = "obj"
    [] OTHER -> TRUE

\* the fields validate.errors reports, as the set of offending paths
Violations(v, schema) ==
  IF v.t # "obj" THEN {"#/type"}
  ELSE {"#/required/" \o k : k \in {r \in schema.required : GetProp(v, r) = Undef}}
       \cup {"#/properties/" \o k : k \in {q \in DOMAIN schema.properties :
                      GetProp(v, q) # Undef /\ ~TypeOk(GetProp(v, q), schema.properties[q])}}

Validate(v, schema) == Violations(v, schema) = {}

\* JSON.stringify(validate.errors), one token per violation
RECURSIVE Stringify(_)
Stringify(S) ==
  IF S = {} THEN <<>>
  ELSE LET x == CHOOSE y \in S : TRUE IN <<x>> \o Stringify(S \ {x})

\* ------------------------------------------------------------ the callers' data
\* tool definitions the host registers (content.RAG.ts initializeContentTools, reduced)
IdeaTool ==
  [interface |-> [toolName |-> "content_idea_generator", toolArgs |-> Obj([topic |-> Str("")])],
   inputSchema |-> [type |-> "object", properties |-> [topic |-> "string"], required |-> {"topic"}],
   outputSchema |-> [type |-> "object", properties |-> [ideas |-> "array"], required |-> {}],
   handler |-> "ideas"]
ProductionTool ==
  [interface |-> [toolName |-> "content_production", toolArgs |-> Obj([title |-> Str("")])],
   inputSchema |-> [type |-> "object", properties |-> [title |-> "string"], required |-> {"title"}],
   outputSchema |-> [type |-> "object", properties |-> [content |-> "string"], required |-> {}],
   handler |-> "produce"]
ToolCatalog == {IdeaTool, ProductionTool}
ToolNames == {"content_idea_generator", "content_production", "missing_tool"}

\* what a handler may produce from the arguments it reads off the interface object
HandlerOutcomes(handler, args) ==
  CASE handler = "ideas" ->
         {Ok(Obj([ideas |-> Arr(<<Obj([idea |-> Str("A")]), Obj([idea |-> Str("B")])>>)])),
          Ok(Obj([ideas |-> Arr(<<>>)])),
          Ok(Obj([ideas |-> Str("none")])),
          Throw(Error(<<"Topic and keywords must be provided for content idea generation.">>))}
    [] handler = "produce" ->
         {Ok(Obj([content |-> GetProp(args, "title")])),
          Ok(Obj([content |-> Num(0)])),
          Throw(Error(<<"Title, word count, tone, style, and language must be provided for content production.">>))}
    [] OTHER -> {}

\* a string mapping value, as its tokens
P(tokens) == [t |-> "str", p |-> tokens]
Step(toolName, inputMapping) == [toolName |-> toolName, inputMapping |-> inputMapping]
Entry(key, value) == [key |-> key, value |-> value]

GenStep == Step("content_idea_generator", <<Entry("topic", P(<<"input", ".", "topic">>))>>)
\* the fan-out scenario of the spec: one production per idea
FanOutWorkflow ==
  [name |-> "fan_out", description |-> "one production per idea",
   steps |-> <<GenStep,
               Step("content_production",
                    <<Entry("title", P(<<"output", ".", "ideas", "[", "$index", "]", ".", "idea">>))>>)>>]
\* content.RAG.ts createDefaultWorkflows: the first idea only
DefaultWorkflow ==
  [name |-> "default_content_generation", description |-> "Standard content generation workflow",
   steps |-> <<GenStep,
               Step("content_production",
                    <<Entry("title", P(<<"output", ".", "ideas", "[", "0", "]", ".", "idea">>))>>)>>]
\* a step on a tool nobody registers
UnknownToolWorkflow ==
  [name |-> "fan_out", description |-> "names a missing tool",
   steps |-> <<GenStep, Step("missing_tool", <<Entry("title", P(<<"output", ".", "ideas">>))>>)>>]
\* a mapping key the tool's input schema does not declare
BadMappingWorkflow ==
  [name |-> "bad_mapping", description |-> "maps an undeclared key",
   steps |-> <<GenStep,
               Step("content_production", <<Entry("title", P(<<"draft">>)),
                                            Entry("subject", P(<<"input", ".", "topic">>))>>)>>]
WorkflowCatalog == {FanOutWorkflow, DefaultWorkflow, UnknownToolWorkflow, BadMappingWorkflow}
\* what the host stores through the registry itself, unchecked
RegistryWorkflows == {DefaultWorkflow, UnknownToolWorkflow}

InitialInputs == {Obj([topic |-> Str("ai")]), Obj(<<>>), Null}
ToolInputs == {Obj([topic |-> Str("ai")]), Obj([topic |-> Num(5)]), Obj([title |-> Str("T")])}

\* ------------------------------------------------------------------ state
VARIABLES
  tools,      \* ToolRegistry.tools: name -> IToolConfig
  workflows,  \* ToolRegistry.workflows: the Map's entries in insertion order
  nextId,     \* the uuids handed out so far
  calls       \* the engine calls in progress, and their outcome until the caller takes it
vars == <<tools, workflows, nextId, calls>>

Callers == 1..MaxCalls

NoSchema == [type |-> "none", properties |-> Empty, required |-> {}]
NoPending == [tool |-> "", handler |-> "", inputSchema |-> NoSchema, outputSchema |-> NoSchema,
              seen |-> Undef]

IdleCall ==
  [kind |-> "idle", pc |-> "idle", arg |-> Undef,
   workflow |-> [id |-> "", name |-> "", description |-> "", steps |-> <<>>],
   initialInput |-> Undef, currentOutput |-> Undef, executionContext |-> Undef,
   index |-> 0, fanout |-> FALSE, array |-> <<>>, i |-> 0, results |-> <<>>,
   elem |-> -1, mappedInput |-> Undef, pending |-> NoPending, result |-> Undef, log |-> <<>>]

\* an entry of a call's history: what happened, at which step and element
Event(e, c, tool, data, schema) ==
  [e |-> e, step |-> c.index, elem |-> c.elem, tool |-> tool, data |-> data, schema |-> schema]

\* ------------------------------------------------------------ ToolRegistry
getTool(tls, name) == IF name \in DOMAIN tls THEN tls[name] ELSE Undef
\* a registry that drops the other tools when a name is registered again
registerToolAfresh(tls, tool) ==
  IF tool.interface.toolName \in DOMAIN tls THEN [n \in {tool.interface.toolName} |-> tool]
  ELSE [n \in (DOMAIN tls) \cup {tool.interface.toolName} |->
          IF n = tool.interface.toolName THEN tool ELSE tls[n]]
\* a registry that keeps the first definition registered under a name
registerToolKeepFirst(tls, tool) ==
  IF tool.interface.toolName \in DOMAIN tls THEN tls
  ELSE [n \in (DOMAIN tls) \cup {tool.interface.toolName} |->
          IF n = tool.interface.toolName THEN tool ELSE tls[n]]

\* tools.set(tool.interface.toolName, tool)
registerTool(tls, tool) ==
  [n \in (DOMAIN tls) \cup {tool.interface.toolName} |->
     IF n = tool.interface.toolName THEN tool ELSE tls[n]]

uuidv4(n) == "wf-" \o ToString(n)
\* a registry that files workflows under their name
registryCreateWorkflowByName(wfs, n, workflow) ==
  LET stored == [id |-> uuidv4(n), name |-> workflow.name, description |-> workflow.description,
                 steps |-> workflow.steps]
      same == {j \in DOMAIN wfs : wfs[j].name = workflow.name}
  IN IF same = {} THEN Append(wfs, stored)
     ELSE [j \in DOMAIN wfs |-> IF j \in same THEN stored ELSE wfs[j]]

\* workflows.set(id, {...workflow, id})
registryCreateWorkflow(wfs, n, workflow) ==
  Append(wfs, [id |-> uuidv4(n), name |-> workflow.name, description |-> workflow.description,
               steps |-> workflow.steps])
WorkflowIds(wfs) == {wfs[j].id : j \in DOMAIN wfs}
getWorkflow(wfs, id) ==
  IF id \in WorkflowIds(wfs) THEN wfs[CHOOSE j \in DOMAIN wfs : wfs[j].id = id] ELSE Undef

\* a lookup that keeps the last match
RECURSIVE getWorkflowByNameLast(_, _)
getWorkflowByNameLast(wfs, name) ==
  IF wfs = <<>> THEN Undef
  ELSE IF wfs[Len(wfs)].name = name THEN wfs[Len(wfs)]
  ELSE getWorkflowByNameLast(SubSeq(wfs, 1, Len(wfs) - 1), name)

\* Array.from(this.workflows.values()).find((workflow) => workflow.name === name)
RECURSIVE getWorkflowByName(_, _)
getWorkflowByName(wfs, name) ==
  IF wfs = <<>> THEN Undef
  ELSE IF Head(wfs).name = name THEN Head(wfs)
  ELSE getWorkflowByName(Tail(wfs), name)

\* ------------------------------------------------------------ ToolExecutor
\* an executor that takes the input as it comes
ExecuteToolStartUnchecked(tls, toolName, input) ==
  IF getTool(tls, toolName) = Undef
  THEN [ok |-> FALSE, err |-> Error(<<"Tool ", toolName, " not found">>), tls |-> tls]
  ELSE [ok |-> TRUE, tls |-> [tls EXCEPT ![toolName].interface.toolArgs = input]]

\* an executor that writes toolArgs before it validates
ExecuteToolStartEager(tls, toolName, input) ==
  LET tool == getTool(tls, toolName)
      written == [tls EXCEPT ![toolName].interface.toolArgs = input]
  IN IF tool = Undef
     THEN [ok |-> FALSE, err |-> Error(<<"Tool ", toolName, " not found">>), tls |-> tls]
     ELSE IF ~Validate(input, tool.inputSchema)
     THEN [ok |-> FALSE, tls |-> written,
           err |-> Error(<<"Invalid input for tool ", toolName, ": ">>
                         \o Stringify(Violations(input, tool.inputSchema)))]
     ELSE [ok |-> TRUE, tls |-> written]

\* executeTool up to the handler call (ToolExecutor.ts 15-31): the lookup, the
\* input validation, the write of toolArgs.  Yields the registry as it leaves it.
ExecuteToolStart(tls, toolName, input) ==
  LET tool == getTool(tls, toolName)
  IN IF tool = Undef
     THEN [ok |-> FALSE, err |-> Error(<<"Tool ", toolName, " not found">>), tls |-> tls]
     ELSE IF ~Validate(input, tool.inputSchema)
     THEN [ok |-> FALSE, tls |-> tls,
           err |-> Error(<<"Invalid input for tool ", toolName, ": ">>
                         \o Stringify(Violations(input, tool.inputSchema)))]
     ELSE [ok |-> TRUE, tls |-> [tls EXCEPT ![toolName].interface.toolArgs = input]]

\* the handler call of line 31: the handler gets tool.interface and reads toolArgs off it
HandlerCall(tls, toolName) ==
  [tool |-> toolName, handler |-> tls[toolName].handler,
   inputSchema |-> tls[toolName].inputSchema, outputSchema |-> tls[toolName].outputSchema,
   seen |-> tls[toolName].interface.toolArgs]

\* an executor that hands the handler's result on as it is
ExecuteToolFinishUnchecked(pending, outcome) ==
  IF ~outcome.ok THEN Throw(outcome.err) ELSE Ok(outcome.v)

\* executeTool after the handler settled (ToolExecutor.ts 31-41)
ExecuteToolFinish(pending, outcome) ==
  IF ~outcome.ok THEN Throw(outcome.err)
  ELSE IF ~Validate(outcome.v, pending.outputSchema)
  THEN Throw(Error(<<"Invalid output from tool ", pending.tool, ": ">>
                   \o Stringify(Violations(outcome.v, pending.outputSchema))))
  ELSE Ok(outcome.v)

\* executeToolWithJsonOutput: executeTool, the result handed on as a JSON value
ExecuteToolWithJsonOutputStart(tls, toolName, input) == ExecuteToolStart(tls, toolName, input)
ExecuteToolWithJsonOutputFinish(pending, outcome) == ExecuteToolFinish(pending, outcome)

\* ------------------------------------------------- WorkflowManager, mapping
IsString(sourcePath) == sourcePath.t = "str"

\* index?.toString() || "0"; -1 stands for an omitted index
IndexString(index) == IF index < 0 THEN "0" ELSE ToString(index)

\* a resolver that reads output. paths from the accumulated input
resolvePathMixed(path, previousOutput, executionContext) ==
  IF ~IsString(path) THEN Throw(TypeError(<<"path.startsWith is not a function">>))
  ELSE IF StartsWith(path.p, "context") THEN getValueFromPath(executionContext, DropPrefix(path.p))
  ELSE IF StartsWith(path.p, "output")
       THEN getValueFromPath(GetProp(previousOutput, "input"), DropPrefix(path.p))
  ELSE IF StartsWith(path.p, "input")
       THEN getValueFromPath(GetProp(previousOutput, "input"), DropPrefix(path.p))
  ELSE Ok(Str(JoinTokens(path.p)))

resolvePath(path, previousOutput, executionContext) ==
  IF ~IsString(path) THEN Throw(TypeError(<<"path.startsWith is not a function">>))
  ELSE IF StartsWith(path.p, "context") THEN getValueFromPath(executionContext, DropPrefix(path.p))
  ELSE IF StartsWith(path.p, "output")
       THEN getValueFromPath(GetProp(previousOutput, "output"), DropPrefix(path.p))
  ELSE IF StartsWith(path.p, "input")
       THEN getValueFromPath(GetProp(previousOutput, "input"), DropPrefix(path.p))
  ELSE Ok(Str(JoinTokens(path.p)))

RECURSIVE MapEntries(_, _, _, _, _)
MapEntries(entries, previousOutput, executionContext, index, mappedInput) ==
  IF entries = <<>> THEN Ok(Obj(mappedInput))
  ELSE LET sourcePath == Head(entries).value
           resolvedPath == IF IsString(sourcePath)
                           THEN P(ReplaceIndex(sourcePath.p, IndexString(index)))
                           ELSE sourcePath
           r == resolvePath(resolvedPath, previousOutput, executionContext)
       IN IF ~r.ok THEN r
          ELSE MapEntries(Tail(entries), previousOutput, executionContext, index,
                          Override(mappedInput, [k \in {Head(entries).key} |-> r.v]))

prepareStepInput(step, previousOutput, executionContext, index) ==
  MapEntries(step.inputMapping, previousOutput, executionContext, index, Empty)

IndexedValues(step) ==
  {j \in DOMAIN step.inputMapping :
     IsString(step.inputMapping[j].value) /\ IncludesIndex(step.inputMapping[j].value.p)}

requiresArrayProcessing(step) == IndexedValues(step) # {}

\* an extraction that takes whatever is not an array for an empty one
extractArrayOrEmpty(currentOutput, step) ==
  LET first == CHOOSE j \in IndexedValues(step) : \A k \in IndexedValues(step) : j <= k
      basePath == StripIndexed(step.inputMapping[first].value.p)
      array == getValueFromPath(currentOutput, basePath)
  IN IF ~array.ok THEN array
     ELSE IF ~IsArray(array.v) THEN Ok(Arr(<<>>))
     ELSE array

extractArrayFromOutput(currentOutput, step) ==
  LET first == CHOOSE j \in IndexedValues(step) : \A k \in IndexedValues(step) : j <= k
      basePath == StripIndexed(step.inputMapping[first].value.p)
      array == getValueFromPath(currentOutput, basePath)
  IN IF ~array.ok THEN array
     ELSE IF ~IsArray(array.v)
     THEN Throw(Error(<<"Expected an array at path ", JoinTokens(basePath)>>))
     ELSE array

\* ------------------------------------------------ WorkflowManager, execution
\* a stream that enqueues the response twice
convertResponseTwice(response) == [chunks |-> <<response, response>>, closed |-> TRUE]

\* convertResponseToStream: one chunk, then closed
convertResponseToStream(response) == [chunks |-> <<response>>, closed |-> TRUE]

CurrentStep(c) == c.workflow.steps[c.index + 1]
ContextKey(index) == "step_" \o ToString(index)
\* a context that keeps the entry of the last step only
SetContextLastOnly(executionContext, index, input, output) ==
  Obj([k \in {ContextKey(index)} |-> Obj([input |-> input, output |-> output])])
SetContext(executionContext, index, input, output) ==
  Obj(Override(executionContext.o,
               [k \in {ContextKey(index)} |-> Obj([input |-> input, output |-> output])]))
CurrentOutput(input, output) == Obj([input |-> input, output |-> output])

\* a message that leaves the step index out
WrapStepErrorNoIndex(index, step, error) ==
  Error(<<"Workflow execution failed: ">> \o error.msg)

\* the Error the catch block throws (WorkFlowManager.ts 66-68)
WrapStepError(index, step, error) ==
  Error(<<"Workflow execution failed at step ", ToString(index), ": ">> \o error.msg)

\* a catch block that logs and leaves the loop: the run returns what it has
StepFailedSwallowed(c, error) ==
  [c EXCEPT !.pc = "done", !.pending = NoPending,
            !.result = Ok(convertResponseToStream(GetProp(c.currentOutput, "output")))]

\* the catch block of the step loop: log and rethrow, the run is over
StepFailed(c, error) ==
  [c EXCEPT !.pc = "failed", !.pending = NoPending,
            !.result = Throw(WrapStepError(c.index, CurrentStep(c), error))]

\* the payload of a non-fan-out step (line 50)
StepToolInput(initialInput, currentOutput, mappedInput) ==
  Spread3(initialInput, GetProp(currentOutput, "input"), mappedInput)

\* a loop that walks the array from its end
ElementOrderReversed(array, i) == Len(array) - 1 - i

\* the loop header of processArrayStep: iteration i handles element i
ElementOrder(array, i) == i

\* a call of prepareStepInput that leaves the index out
ElementInputNoIndex(step, currentOutput, executionContext, i) ==
  prepareStepInput(step, currentOutput, executionContext, -1)

\* the mapped input of iteration i (lines 121-126)
ElementInput(step, currentOutput, executionContext, i) ==
  prepareStepInput(step, currentOutput, executionContext, i)
\* results.push(toolOutput)
PushResult(results, toolOutput) == Append(results, toolOutput)

\* a fan-out step that records nothing when it has handled no element
FanOutDoneSkipEmpty(c) ==
  IF c.results = <<>>
  THEN [c EXCEPT !.index = @ + 1, !.fanout = FALSE, !.array = <<>>, !.i = 0, !.elem = -1]
  ELSE [c EXCEPT !.executionContext = SetContext(@, c.index, GetProp(c.currentOutput, "input"),
                                                 Arr(c.results)),
                 !.currentOutput = CurrentOutput(Spread3(c.initialInput, GetProp(@, "input"),
                                                         Arr(c.results)), Arr(c.results)),
                 !.index = @ + 1, !.fanout = FALSE, !.array = <<>>, !.i = 0, !.elem = -1,
                 !.results = <<>>]

\* lines 34-41: a fan-out step is over
FanOutDone(c) ==
  [c EXCEPT !.executionContext = SetContext(@, c.index, GetProp(c.currentOutput, "input"),
                                            Arr(c.results)),
            !.currentOutput = CurrentOutput(Spread3(c.initialInput, GetProp(@, "input"),
                                                    Arr(c.results)), Arr(c.results)),
            !.index = @ + 1, !.fanout = FALSE, !.array = <<>>, !.i = 0, !.elem = -1,
            !.results = <<>>]

\* a merge in which the first writer of a key wins
PlainDoneFirstWins(c, toolOutput) ==
  [c EXCEPT !.executionContext = SetContext(@, c.index, c.mappedInput, toolOutput),
            !.currentOutput = CurrentOutput(Spread3(toolOutput, GetProp(@, "input"),
                                                    c.initialInput), toolOutput),
            !.index = @ + 1, !.mappedInput = Undef]

\* lines 52-59: a plain step is over
PlainDone(c, toolOutput) ==
  [c EXCEPT !.executionContext = SetContext(@, c.index, c.mappedInput, toolOutput),
            !.currentOutput = CurrentOutput(Spread3(c.initialInput, GetProp(@, "input"),
                                                    toolOutput), toolOutput),
            !.index = @ + 1, !.mappedInput = Undef]

\* an executor call that hands the handler the interface as it was before this
\* call's arguments were set
CallToolStale(c, tls, toolName, input) ==
  LET st == ExecuteToolWithJsonOutputStart(tls, toolName, input)
      called == [c EXCEPT !.log = Append(@, Event("call", c, toolName, input, NoSchema))]
  IN IF ~st.ok
     THEN [c |-> StepFailed([called EXCEPT !.log = Append(@, Event("throw", c, toolName, st.err,
                                                                  NoSchema))], st.err),
           tls |-> st.tls]
     ELSE [c |-> [called EXCEPT !.pc = "handler", !.pending = HandlerCall(tls, toolName),
                                !.log = Append(@, Event("handler", c, toolName,
                                                        HandlerCall(tls, toolName).seen,
                                                        HandlerCall(tls, toolName).inputSchema))],
           tls |-> st.tls]

\* a call of the executor from a step: either it throws at once, or the handler
\* is running and the run waits for it
CallTool(c, tls, toolName, input) ==
  LET st == ExecuteToolWithJsonOutputStart(tls, toolName, input)
      called == [c EXCEPT !.log = Append(@, Event("call", c, toolName, input, NoSchema))]
  IN IF ~st.ok
     THEN [c |-> StepFailed([called EXCEPT !.log = Append(@, Event("throw", c, toolName, st.err,
                                                                  NoSchema))], st.err),
           tls |-> st.tls]
     ELSE [c |-> [called EXCEPT !.pc = "handler", !.pending = HandlerCall(st.tls, toolName),
                                !.log = Append(@, Event("handler", c, toolName,
                                                        HandlerCall(st.tls, toolName).seen,
                                                        HandlerCall(st.tls, toolName).inputSchema))],
           tls |-> st.tls]

\* the synchronous code of executeWorkflow from the top of the step loop (or of
\* the element loop) to the next handler call, to the return, or to the throw
RECURSIVE RunSteps(_, _)
RunSteps(c, tls) ==
  IF c.index >= Len(c.workflow.steps)
  THEN [c |-> [c EXCEPT !.pc = "done",
                        !.result = Ok(convertResponseToStream(GetProp(c.currentOutput, "output")))],
        tls |-> tls]
  ELSE LET step == CurrentStep(c)
           thrown(error) == [c EXCEPT !.log = Append(@, Event("throw", c, step.toolName, error,
                                                             NoSchema))]
       IN IF c.fanout
          THEN IF c.i < Len(c.array)
               THEN LET e == [c EXCEPT !.elem = ElementOrder(c.array, c.i)]
                        mappedInput == ElementInput(step, c.currentOutput, c.executionContext, e.elem)
                    IN IF ~mappedInput.ok
                       THEN [c |-> StepFailed(thrown(mappedInput.err), mappedInput.err), tls |-> tls]
                       ELSE CallTool(e, tls, step.toolName, mappedInput.v)
               ELSE RunSteps(FanOutDone(c), tls)
          ELSE IF requiresArrayProcessing(step)
               THEN LET array == extractArrayFromOutput(c.currentOutput, step)
                    IN IF ~array.ok
                       THEN [c |-> StepFailed(thrown(array.err), array.err), tls |-> tls]
                       ELSE RunSteps([c EXCEPT !.fanout = TRUE, !.array = array.v.a, !.i = 0,
                                               !.results = <<>>,
                                               !.log = Append(@, Event("fanout", c, step.toolName,
                                                                       array.v, NoSchema))], tls)
               ELSE LET mappedInput == prepareStepInput(step, c.currentOutput,
                                                        c.executionContext, -1)
                    IN IF ~mappedInput.ok
                       THEN [c |-> StepFailed(thrown(mappedInput.err), mappedInput.err), tls |-> tls]
                       ELSE CallTool([c EXCEPT !.mappedInput = mappedInput.v], tls, step.toolName,
                                     StepToolInput(c.initialInput, c.currentOutput, mappedInput.v))

\* a continuation that stays at the element it has just handled
ResumeWorkflowSameElement(c, tls, outcome) ==
  LET toolOutput == ExecuteToolWithJsonOutputFinish(c.pending, outcome)
      settled == [c EXCEPT !.pending = NoPending]
  IN IF ~toolOutput.ok
     THEN [c |-> StepFailed([settled EXCEPT !.log = Append(@, Event("throw", c, c.pending.tool,
                                                                   toolOutput.err, NoSchema))],
                            toolOutput.err),
           tls |-> tls]
     ELSE LET returned == [settled EXCEPT !.log = Append(@, Event("return", c, c.pending.tool,
                                                                  toolOutput.v, c.pending.outputSchema))]
          IN IF c.fanout
             THEN RunSteps([returned EXCEPT !.results = PushResult(@, toolOutput.v)], tls)
             ELSE RunSteps(PlainDone(returned, toolOutput.v), tls)

\* the run resumes when the handler it waits for has settled
ResumeWorkflow(c, tls, outcome) ==
  LET toolOutput == ExecuteToolWithJsonOutputFinish(c.pending, outcome)
      settled == [c EXCEPT !.pending = NoPending]
  IN IF ~toolOutput.ok
     THEN [c |-> StepFailed([settled EXCEPT !.log = Append(@, Event("throw", c, c.pending.tool,
                                                                   toolOutput.err, NoSchema))],
                            toolOutput.err),
           tls |-> tls]
     ELSE LET returned == [settled EXCEPT !.log = Append(@, Event("return", c, c.pending.tool,
                                                                  toolOutput.v, c.pending.outputSchema))]
          IN IF c.fanout
             THEN RunSteps([returned EXCEPT !.results = PushResult(@, toolOutput.v),
                                            !.i = @ + 1], tls)
             ELSE RunSteps(PlainDone(returned, toolOutput.v), tls)

\* ------------------------------------------------ WorkflowManager, creation
\* a check that looks at the first step only
CheckStepsFirstOnly(tls, steps) ==
  IF steps = <<>> \/ getTool(tls, Head(steps).toolName) # Undef THEN Ok(Undef)
  ELSE Throw(Error(<<"Tool ", Head(steps).toolName, " not found in registry">>))

\* a check of the tool names that leaves the mapping keys alone
RECURSIVE CheckStepsToolsOnly(_, _)
CheckStepsToolsOnly(tls, steps) ==
  IF steps = <<>> THEN Ok(Undef)
  ELSE IF getTool(tls, Head(steps).toolName) = Undef
  THEN Throw(Error(<<"Tool ", Head(steps).toolName, " not found in registry">>))
  ELSE CheckStepsToolsOnly(tls, Tail(steps))

\* the checks of createWorkflow, step by step (WorkFlowManager.ts 76-88)
RECURSIVE CheckSteps(_, _)
CheckSteps(tls, steps) ==
  IF steps = <<>> THEN Ok(Undef)
  ELSE LET step == Head(steps)
           tool == getTool(tls, step.toolName)
           undeclared == {j \in DOMAIN step.inputMapping :
                            step.inputMapping[j].key \notin DOMAIN tool.inputSchema.properties}
       IN IF tool = Undef
          THEN Throw(Error(<<"Tool ", step.toolName, " not found in registry">>))
          ELSE IF undeclared # {}
          THEN Throw(Error(<<"Invalid input mapping: ",
                             step.inputMapping[CHOOSE j \in undeclared :
                                                 \A k \in undeclared : j <= k].key,
                             " not found in tool ", step.toolName>>))
          ELSE CheckSteps(tls, Tail(steps))

\* ------------------------------------------------------------------ actions
Init ==
  /\ tools = Empty
  /\ workflows = <<>>
  /\ nextId = 0
  /\ calls = [p \in Callers |-> IdleCall]

\* ToolRegistry.registerTool
RegisterTool(tool) ==
  /\ tools' = registerTool(tools, tool)
  /\ UNCHANGED <<workflows, nextId, calls>>

\* ToolRegistry.createWorkflow, called on the registry itself
RegistryCreateWorkflow(workflow) ==
  /\ Len(workflows) < MaxWorkflows
  /\ workflows' = registryCreateWorkflow(workflows, nextId, workflow)
  /\ nextId' = nextId + 1
  /\ UNCHANGED <<tools, calls>>

\* WorkflowManager.createWorkflow
CreateWorkflow(p, workflow) ==
  /\ calls[p].pc = "idle"
  /\ Len(workflows) < MaxWorkflows
  /\ LET checked == CheckSteps(tools, workflow.steps)
     IN IF checked.ok
        THEN /\ workflows' = registryCreateWorkflow(workflows, nextId, workflow)
             /\ nextId' = nextId + 1
             /\ calls' = [calls EXCEPT ![p] = [IdleCall EXCEPT !.kind = "create", !.pc = "done",
                                                 !.arg = workflow,
                                                 !.result = Ok(Str(uuidv4(nextId)))]]
        ELSE /\ calls' = [calls EXCEPT ![p] = [IdleCall EXCEPT !.kind = "create", !.pc = "failed",
                                                 !.arg = workflow, !.result = checked]]
             /\ UNCHANGED <<workflows, nextId>>
  /\ UNCHANGED tools

\* executeWorkflow from its entry to its first handler call (or to its end): the
\* lookup of line 17, the locals of lines 20-21, then the step loop
StartWorkflow(wfs, tls, workflowId, initialInput) ==
  LET workflow == getWorkflow(wfs, workflowId)
      started == [IdleCall EXCEPT !.kind = "workflow", !.arg = Str(workflowId),
                                  !.initialInput = initialInput]
  IN IF workflow = Undef
     THEN [c |-> [started EXCEPT !.pc = "failed",
                                 !.result = Throw(Error(<<"Workflow ", workflowId,
                                                          " not found">>))],
           tls |-> tls]
     ELSE RunSteps([started EXCEPT !.workflow = workflow,
                                   !.currentOutput = CurrentOutput(initialInput, Null),
                                   !.executionContext = Obj(Empty)], tls)

\* WorkflowManager.executeWorkflow, to its first handler call (or to its end)
ExecuteWorkflow(p, workflowId, initialInput) ==
  /\ calls[p].pc = "idle"
  /\ LET run == StartWorkflow(workflows, tools, workflowId, initialInput)
     IN /\ calls' = [calls EXCEPT ![p] = run.c]
        /\ tools' = run.tls
  /\ UNCHANGED <<workflows, nextId>>

\* ToolExecutor.executeTool called directly, to its handler call
ExecuteTool(p, toolName, input) ==
  /\ calls[p].pc = "idle"
  /\ LET st == ExecuteToolStart(tools, toolName, input)
         started == [IdleCall EXCEPT !.kind = "tool", !.arg = Str(toolName),
                                     !.log = <<Event("call", IdleCall, toolName, input, NoSchema)>>]
     IN /\ tools' = st.tls
        /\ calls' = [calls EXCEPT ![p] =
             IF ~st.ok
             THEN [started EXCEPT !.pc = "failed", !.result = Throw(st.err)]
             ELSE [started EXCEPT !.pc = "handler", !.pending = HandlerCall(st.tls, toolName),
                                  !.log = Append(@, Event("handler", IdleCall, toolName,
                                                          HandlerCall(st.tls, toolName).seen,
                                                          HandlerCall(st.tls, toolName).inputSchema))]]
  /\ UNCHANGED <<workflows, nextId>>

\* the handler a call waits for settles; the call goes on to its next await or to its end
HandlerSettles(p, outcome) ==
  /\ calls[p].pc = "handler"
  /\ outcome \in HandlerOutcomes(calls[p].pending.handler, calls[p].pending.seen)
  /\ IF calls[p].kind = "workflow"
     THEN LET run == ResumeWorkflow(calls[p], tools, outcome)
          IN /\ calls' = [calls EXCEPT ![p] = run.c]
             /\ tools' = run.tls
     ELSE LET result == ExecuteToolFinish(calls[p].pending, outcome)
          IN /\ calls' = [calls EXCEPT ![p] =
                  [@ EXCEPT !.pc = IF result.ok THEN "done" ELSE "failed",
                            !.pending = NoPending, !.result = result,
                            !.log = IF result.ok
                                    THEN Append(@, Event("return", IdleCall, calls[p].pending.tool,
                                                         result.v, calls[p].pending.outputSchema))
                                    ELSE @]]
             /\ UNCHANGED tools
  /\ UNCHANGED <<workflows, nextId>>

\* the caller takes the outcome of its call
Return(p) ==
  /\ calls[p].pc \in {"done", "failed"}
  /\ calls' = [calls EXCEPT ![p] = IdleCall]
  /\ UNCHANGED <<tools, workflows, nextId>>

HandlerResults ==
  UNION {HandlerOutcomes(h, a) : h \in {"ideas", "produce"},
                                 a \in {calls[p].pending.seen : p \in DOMAIN calls}}

Next ==
  \/ \E tool \in ToolCatalog : RegisterTool(tool)
  \/ \E workflow \in RegistryWorkflows : RegistryCreateWorkflow(workflow)
  \/ \E p \in Callers, workflow \in WorkflowCatalog : CreateWorkflow(p, workflow)
  \/ \E p \in Callers, id \in WorkflowIds(workflows) \cup {"no-such-id"}, input \in InitialInputs :
       ExecuteWorkflow(p, id, input)
  \/ \E p \in Callers, toolName \in ToolNames, input \in ToolInputs : ExecuteTool(p, toolName, input)
  \/ \E p \in Callers, outcome \in HandlerResults : HandlerSettles(p, outcome)
  \/ \E p \in Callers : Return(p)

Spec == Init /\ [][Next]_vars

\* --------------------------------------------- DynamicRAGBuilder.executeTool
\* executeTool of the older host up to the handler call (DynamicRagBuilder.ts
\* 126-140): toolArgs is written first, on whatever getTool returned
DynExecuteToolStart(tls, toolName, input) ==
  LET tool == getTool(tls, toolName)
      written == [tls EXCEPT ![toolName].interface.toolArgs = input]
  IN IF tool = Undef
     THEN [ok |-> FALSE, tls |-> tls,
           err |-> TypeError(<<"Cannot read properties of undefined (reading '", "interface", "')">>)]
     ELSE IF ~Validate(input, tool.inputSchema)
     THEN [ok |-> FALSE, tls |-> written,
           err |-> Error(<<"Invalid input for tool ", toolName, ": ">>
                         \o Stringify(Violations(input, tool.inputSchema)))]
     ELSE [ok |-> TRUE, tls |-> written]

\* and after the handler settled (DynamicRagBuilder.ts 140-152)
DynExecuteToolFinish(pending, outcome) ==
  IF ~outcome.ok THEN Throw(outcome.err)
  ELSE IF ~Validate(outcome.v, pending.outputSchema)
  THEN Throw(Error(<<"Invalid output from tool ", pending.tool, ": ">>
                   \o Stringify(Violations(outcome.v, pending.outputSchema))))
  ELSE Ok(outcome.v)

\* DynamicRAGBuilder.executeTool, to its handler call
DynExecuteTool(p, toolName, input) ==
  /\ calls[p].pc = "idle"
  /\ LET st == DynExecuteToolStart(tools, toolName, input)
         started == [IdleCall EXCEPT !.kind = "tool", !.arg = Str(toolName),
                                     !.log = <<Event("call", IdleCall, toolName, input, NoSchema)>>]
     IN /\ tools' = st.tls
        /\ calls' = [calls EXCEPT ![p] =
             IF ~st.ok
             THEN [started EXCEPT !.pc = "failed", !.result = Throw(st.err)]
             ELSE [started EXCEPT !.pc = "handler", !.pending = HandlerCall(st.tls, toolName),
                                  !.log = Append(@, Event("handler", IdleCall, toolName,
                                                          HandlerCall(st.tls, toolName).seen,
                                                          HandlerCall(st.tls, toolName).inputSchema))]]
  /\ UNCHANGED <<workflows, nextId>>

\* the handler of a DynamicRAGBuilder.executeTool call settles
DynHandlerSettles(p, outcome) ==
  /\ calls[p].pc = "handler"
  /\ calls[p].kind = "tool"
  /\ outcome \in HandlerOutcomes(calls[p].pending.handler, calls[p].pending.seen)
  /\ LET result == DynExecuteToolFinish(calls[p].pending, outcome)
     IN calls' = [calls EXCEPT ![p] =
          [@ EXCEPT !.pc = IF result.ok THEN "done" ELSE "failed",
                    !.pending = NoPending, !.result = result,
                    !.log = IF result.ok
                            THEN Append(@, Event("return", IdleCall, calls[p].pending.tool,
                                                 result.v, calls[p].pending.outputSchema))
                            ELSE @]]
  /\ UNCHANGED <<tools, workflows, nextId>>

NextDyn ==
  \/ \E tool \in ToolCatalog : RegisterTool(tool)
  \/ \E p \in Callers, toolName \in ToolNames, input \in ToolInputs : DynExecuteTool(p, toolName, input)
  \/ \E p \in Callers, outcome \in HandlerResults : DynHandlerSettles(p, outcome)
  \/ \E p \in Callers : Return(p)

\* the host built on DynamicRAGBuilder
SpecDyn == Init /\ [][NextDyn]_vars

\* ------------------------------------------------- ToolRegistry on its own
\* definitions passed to the registry: two of them share a name
StoredDefinitions == {DefaultWorkflow, FanOutWorkflow, UnknownToolWorkflow}
WorkflowNames == {"default_content_generation", "fan_out", "no_such_name"}
\* the registry's methods are synchronous: their calls never overlap
SyncCaller == {1}

\* ToolRegistry.createWorkflow, the identifier handed to the caller
CreateWorkflowInRegistry(p, workflow) ==
  /\ calls[p].pc = "idle"
  /\ Len(workflows) < MaxStored
  /\ workflows' = registryCreateWorkflow(workflows, nextId, workflow)
  /\ nextId' = nextId + 1
  /\ calls' = [calls EXCEPT ![p] = [IdleCall EXCEPT !.kind = "store", !.pc = "done",
                                                   !.arg = workflow,
                                                   !.result = Ok(Str(uuidv4(nextId)))]]
  /\ UNCHANGED tools

\* ToolRegistry.getWorkflowByName
GetWorkflowByName(p, name) ==
  /\ calls[p].pc = "idle"
  /\ calls' = [calls EXCEPT ![p] = [IdleCall EXCEPT !.kind = "byName", !.pc = "done",
                                                   !.arg = Str(name),
                                                   !.result = Ok(getWorkflowByName(workflows, name))]]
  /\ UNCHANGED <<tools, workflows, nextId>>

\* the caller of createWorkflow takes a step off the steps array it passed in:
\* the registry stored {...workflow, id}, whose steps is that same array
CallerPopsStep(j) ==
  /\ workflows[j].steps # <<>>
  /\ workflows' = [workflows EXCEPT ![j].steps = SubSeq(@, 1, Len(@) - 1)]
  /\ UNCHANGED <<tools, nextId, calls>>

NextRegistry ==
  \/ \E tool \in ToolCatalog : RegisterTool(tool)
  \/ \E p \in SyncCaller, workflow \in StoredDefinitions : CreateWorkflowInRegistry(p, workflow)
  \/ \E p \in SyncCaller, name \in WorkflowNames : GetWorkflowByName(p, name)
  \/ \E j \in DOMAIN workflows : CallerPopsStep(j)
  \/ \E p \in SyncCaller : Return(p)

SpecRegistry == Init /\ [][NextRegistry]_vars

\* ------------------------------------------- getValueFromPath on its own
\* the objects of WorkFlowManager.test.ts, and two arrays whose second element
\* lacks the projected property or is null
PathObjects ==
  {Obj([a |-> Obj([b |-> Obj([c |-> Num(42)])])]),
   Obj([a |-> Obj([b |-> Arr(<<Obj([c |-> Num(42)]), Obj([c |-> Num(43)])>>)])]),
   Obj([a |-> Arr(<<Obj([b |-> Arr(<<Obj([c |-> Num(42)])>>)])>>)]),
   Obj([a |-> Obj([b |-> Null])]),
   Obj([a |-> Arr(<<Obj([b |-> Num(1)]), Obj([b |-> Num(2)]), Obj([b |-> Num(3)])>>)]),
   Obj([a |-> Arr(<<Obj([b |-> Num(1)]), Obj([c |-> Num(2)])>>)]),
   Obj([a |-> Arr(<<Obj([b |-> Num(1)]), Null>>)]),
   Null}

\* a segment is a property name, with an index behind it or not (-1)
Segments == [name : {"a", "b", "c", "d"}, index : {-1, 0, 1}]
SegmentPaths == UNION {[1..n -> Segments] : n \in 1..MaxPathLen}

\* the path string of a sequence of segments: "a.b[1].c"
RECURSIVE Render(_)
Render(segs) ==
  IF segs = <<>> THEN <<>>
  ELSE LET seg == Head(segs)
           text == IF seg.index < 0 THEN <<seg.name>>
                   ELSE <<seg.name, "[", ToString(seg.index), "]">>
       IN IF Tail(segs) = <<>> THEN text ELSE text \o <<".">> \o Render(Tail(segs))

\* a call of getValueFromPath(obj, path)
GetValueFromPath(p, obj, segs) ==
  /\ calls[p].pc = "idle"
  /\ LET result == getValueFromPath(obj, Render(segs))
     IN calls' = [calls EXCEPT ![p] =
          [IdleCall EXCEPT !.kind = "path", !.pc = IF result.ok THEN "done" ELSE "failed",
                           !.arg = [obj |-> obj, segs |-> segs], !.result = result]]
  /\ UNCHANGED <<tools, workflows, nextId>>

NextPath ==
  \/ \E p \in SyncCaller :
       /\ calls[p].pc = "idle"
       /\ \E obj \in PathObjects, segs \in SegmentPaths : GetValueFromPath(p, obj, segs)
  \/ \E p \in SyncCaller : Return(p)

SpecPath == Init /\ [][NextPath]_vars

\* ------------------------------------------- prepareStepInput on its own
\* mapping values: one of each prefix, an indexed one, literals (one that only
\* looks like a prefix, one that is not a string)
MapValues ==
  {P(<<"context", ".", "step_0", ".", "output", ".", "x">>),
   P(<<"output", ".", "x">>),
   P(<<"input", ".", "x">>),
   P(<<"output", ".", "items", "[", "$index", "]", ".", "x">>),
   P(<<"x">>),
   P(<<"outputs", ".", "x">>),
   Num(5)}
MapKeys == <<"k1", "k2", "k3">>
Mappings ==
  UNION {{[j \in 1..n |-> Entry(MapKeys[j], values[j])] : values \in [1..n -> MapValues]} :
           n \in 1..MaxEntries}

\* the accumulated input, the previous output and the context hold different
\* values under the same names
PreviousOutputs ==
  {Obj([input |-> Obj([x |-> Num(1)]), output |-> Null]),
   Obj([input |-> Obj([x |-> Num(1)]),
        output |-> Obj([x |-> Num(2),
                        items |-> Arr(<<Obj([x |-> Num(21)]), Obj([x |-> Num(22)])>>)])])}
ExecutionContexts ==
  {Obj(Empty),
   Obj([step_0 |-> Obj([input |-> Obj([x |-> Num(3)]), output |-> Obj([x |-> Num(4)])])])}

\* a call of prepareStepInput(step, previousOutput, executionContext, index)
PrepareStepInput(p, inputMapping, previousOutput, executionContext, index) ==
  /\ calls[p].pc = "idle"
  /\ \E result \in {prepareStepInput(Step("content_idea_generator", inputMapping),
                                       previousOutput, executionContext, index)} :
       calls' = [calls EXCEPT ![p] =
         [IdleCall EXCEPT !.kind = "map", !.pc = IF result.ok THEN "done" ELSE "failed",
                          !.arg = [inputMapping |-> inputMapping,
                                   previousOutput |-> previousOutput,
                                   executionContext |-> executionContext, index |-> index],
                          !.result = result]]
  /\ UNCHANGED <<tools, workflows, nextId>>

NextMap ==
  \/ \E p \in SyncCaller :
       /\ calls[p].pc = "idle"
       /\ \E inputMapping \in Mappings, previousOutput \in PreviousOutputs,
             executionContext \in ExecutionContexts, index \in {-1, 0, 1} :
            PrepareStepInput(p, inputMapping, previousOutput, executionContext, index)
  \/ \E p \in SyncCaller : Return(p)

SpecMap == Init /\ [][NextMap]_vars

\* --------------------------------------------- runs of stored workflows
ProduceFrom(path) == Step("content_production", <<Entry("title", P(path))>>)
FirstIdea == <<"output", ".", "ideas", "[", "0", "]", ".", "idea">>
\* the third step reads a field the second step's output has overridden
MergeWorkflow ==
  [name |-> "merge", description |-> "reads the accumulated input",
   steps |-> <<GenStep, ProduceFrom(FirstIdea), ProduceFrom(<<"input", ".", "content">>)>>]
\* the third step reads the first step's entry of the execution context
ContextWorkflow ==
  [name |-> "context", description |-> "reads the execution context",
   steps |-> <<GenStep,
               ProduceFrom(<<"output", ".", "ideas", "[", "$index", "]", ".", "idea">>),
               ProduceFrom(<<"context", ".", "step_0", ".", "output", ".", "ideas", "[", "0", "]",
                             ".", "idea">>)>>]
\* the third step asks the output for what only the first step produced
StaleOutputWorkflow ==
  [name |-> "stale_output", description |-> "reads an older output",
   steps |-> <<GenStep, ProduceFrom(FirstIdea), ProduceFrom(FirstIdea)>>]
\* fan-out over a string, and over a property nothing produced
StringBaseWorkflow ==
  [name |-> "string_base", description |-> "fans out over a string",
   steps |-> <<GenStep, ProduceFrom(<<"input", ".", "topic", "[", "$index", "]">>)>>]
MissingBaseWorkflow ==
  [name |-> "missing_base", description |-> "fans out over nothing",
   steps |-> <<GenStep, ProduceFrom(<<"output", ".", "items", "[", "$index", "]", ".", "idea">>)>>]
\* fan-out over an array of the accumulated input, and of the execution context
InputFanOutWorkflow ==
  [name |-> "input_fan_out", description |-> "fans out over the accumulated input",
   steps |-> <<GenStep, ProduceFrom(<<"input", ".", "ideas", "[", "$index", "]", ".", "idea">>)>>]
ContextFanOutWorkflow ==
  [name |-> "context_fan_out", description |-> "fans out over the execution context",
   steps |-> <<GenStep,
               ProduceFrom(<<"context", ".", "step_0", ".", "output", ".", "ideas", "[", "$index",
                             "]", ".", "idea">>)>>]
\* a fan-out step with a step after it that needs none of its results
FanOutThenWorkflow ==
  [name |-> "fan_out_then", description |-> "goes on after the fan-out",
   steps |-> <<GenStep,
               ProduceFrom(<<"output", ".", "ideas", "[", "$index", "]", ".", "idea">>),
               ProduceFrom(<<"input", ".", "topic">>)>>]
\* steps that read what no step has produced yet: the output at the first
\* step, plainly and as the base of a fan-out, and the context entry of the
\* step itself, plainly and beside the base of a fan-out
EarlyOutputWorkflow ==
  [name |-> "early_output", description |-> "reads the output at the first step",
   steps |-> <<ProduceFrom(FirstIdea)>>]
EarlyFanOutWorkflow ==
  [name |-> "early_fan_out", description |-> "fans out over the output at the first step",
   steps |-> <<ProduceFrom(<<"output", ".", "ideas", "[", "$index", "]", ".", "idea">>)>>]
FutureContextWorkflow ==
  [name |-> "future_context", description |-> "reads its own context entry",
   steps |-> <<GenStep, ProduceFrom(<<"context", ".", "step_1", ".", "output", ".", "content">>)>>]
FanOutFutureWorkflow ==
  [name |-> "fan_out_future", description |-> "reads its own context entry for each element",
   steps |-> <<GenStep,
               Step("content_production",
                    <<Entry("title", P(<<"output", ".", "ideas", "[", "$index", "]", ".", "idea">>)),
                      Entry("note", P(<<"context", ".", "step_1", ".", "output", ".", "content">>))>>)>>]
FlowWorkflows ==
  <<MergeWorkflow, ContextWorkflow, StaleOutputWorkflow, StringBaseWorkflow, MissingBaseWorkflow,
    InputFanOutWorkflow, ContextFanOutWorkflow, FanOutThenWorkflow, EarlyOutputWorkflow,
    EarlyFanOutWorkflow, FutureContextWorkflow, FanOutFutureWorkflow>>
FlowInputs == {Obj([topic |-> Str("ai")]), Obj([topic |-> Str("ai"), content |-> Str("old")])}

RECURSIVE StoreAll(_, _, _)
StoreAll(wfs, n, definitions) ==
  IF definitions = <<>> THEN wfs
  ELSE StoreAll(registryCreateWorkflow(wfs, n, Head(definitions)), n + 1, Tail(definitions))

\* the host has registered its tools and stored its workflows
InitFlow ==
  /\ tools = registerTool(registerTool(Empty, IdeaTool), ProductionTool)
  /\ workflows = StoreAll(<<>>, 0, FlowWorkflows)
  /\ nextId = Len(FlowWorkflows)
  /\ calls = [p \in SyncCaller |-> IdleCall]

\* the caller reads the stream it was handed: the reader takes the next chunk
\* off the queue (for await ... of, as in convertResponseToString)
ReaderReads(p) ==
  /\ calls[p].pc = "done"
  /\ calls[p].kind = "workflow"
  /\ calls[p].result.v.chunks # <<>>
  /\ calls' = [calls EXCEPT ![p].result.v.chunks = Tail(@),
                            ![p].log = Append(@, Event("chunk", calls[p], "",
                                                       Head(calls[p].result.v.chunks), NoSchema))]
  /\ UNCHANGED <<tools, workflows, nextId>>

NextFlow ==
  \/ \E p \in SyncCaller :
       /\ calls[p].pc = "idle"
       /\ \E id \in WorkflowIds(workflows), input \in FlowInputs : ExecuteWorkflow(p, id, input)
  \/ \E p \in SyncCaller, outcome \in HandlerResults : HandlerSettles(p, outcome)
  \/ \E p \in SyncCaller : ReaderReads(p)
  \/ \E p \in SyncCaller : Return(p)

SpecFlow == InitFlow /\ [][NextFlow]_vars

\* every handler invocation eventually completes: a pending promise settles.
\* This is weak fairness of HandlerSettles with its enabling condition, a call
\* that waits for a handler, written out.
HandlersComplete ==
  \A p \in SyncCaller :
    \/ []<>(calls[p].pc # "handler")
    \/ []<><<\E outcome \in HandlerResults : HandlerSettles(p, outcome)>>_vars
SpecFlowFair == SpecFlow /\ HandlersComplete

\* ------------------------------------- the older WorkflowManager (part_003)
\* lines 73-80: a plain step is over; Object.assign writes the mapped input
\* into the object the caller passed, and currentOutput.input is that object
OldPlainDone(c, toolOutput) ==
  [c EXCEPT !.executionContext = SetContext(@, c.index, c.mappedInput, toolOutput),
            !.initialInput = Obj(Override(SpreadProps(@), SpreadProps(c.mappedInput))),
            !.currentOutput = CurrentOutput(Obj(Override(SpreadProps(c.initialInput),
                                                         SpreadProps(c.mappedInput))), toolOutput),
            !.index = @ + 1, !.mappedInput = Undef]

\* lines 56-60: a fan-out step is over
OldFanOutDone(c) ==
  [c EXCEPT !.executionContext = SetContext(@, c.index, GetProp(c.currentOutput, "input"),
                                            Arr(c.results)),
            !.currentOutput = CurrentOutput(c.initialInput, Arr(c.results)),
            !.index = @ + 1, !.fanout = FALSE, !.array = <<>>, !.i = 0, !.elem = -1,
            !.results = <<>>]

\* the step loop of lines 24-90, to the next handler call or to the end of the
\* run; the conversion of line 93 is the stub of lines 166-171, which throws
RECURSIVE OldRunSteps(_, _)
OldRunSteps(c, tls) ==
  IF c.index >= Len(c.workflow.steps)
  THEN [c |-> [c EXCEPT !.pc = "failed",
                        !.result = Throw(Error(<<"convertResponseToStream not implemented">>))],
        tls |-> tls]
  ELSE LET step == CurrentStep(c)
           thrown(error) == [c EXCEPT !.log = Append(@, Event("throw", c, step.toolName, error,
                                                             NoSchema))]
       IN IF c.fanout
          THEN IF c.i < Len(c.array)
               THEN LET e == [c EXCEPT !.elem = c.i]
                        mappedInput == prepareStepInput(step, c.currentOutput, c.executionContext, c.i)
                    IN IF ~mappedInput.ok
                       THEN [c |-> StepFailed(thrown(mappedInput.err), mappedInput.err), tls |-> tls]
                       ELSE CallTool(e, tls, step.toolName, mappedInput.v)
               ELSE OldRunSteps(OldFanOutDone(c), tls)
          ELSE IF requiresArrayProcessing(step)
               THEN LET array == extractArrayFromOutput(c.currentOutput, step)
                    IN IF ~array.ok
                       THEN [c |-> StepFailed(thrown(array.err), array.err), tls |-> tls]
                       ELSE OldRunSteps([c EXCEPT !.fanout = TRUE, !.array = array.v.a, !.i = 0,
                                                  !.results = <<>>], tls)
               ELSE LET mappedInput == prepareStepInput(step, c.currentOutput,
                                                        c.executionContext, -1)
                    IN IF ~mappedInput.ok
                       THEN [c |-> StepFailed(thrown(mappedInput.err), mappedInput.err), tls |-> tls]
                       ELSE CallTool([c EXCEPT !.mappedInput = mappedInput.v], tls, step.toolName,
                                     mappedInput.v)

\* executeWorkflow of the older manager, to its first handler call or to its end
OldExecuteWorkflow(p, workflowId, initialInput) ==
  /\ calls[p].pc = "idle"
  /\ LET workflow == getWorkflow(workflows, workflowId)
         started == [IdleCall EXCEPT !.kind = "workflow", !.arg = Str(workflowId),
                                     !.initialInput = initialInput]
         run == IF workflow = Undef
                THEN [c |-> [started EXCEPT !.pc = "failed",
                                            !.result = Throw(Error(<<"Workflow ", workflowId,
                                                                     " not found">>))],
                      tls |-> tools]
                ELSE OldRunSteps([started EXCEPT !.workflow = workflow,
                                                 !.currentOutput = CurrentOutput(initialInput, Null),
                                                 !.executionContext = Obj(Empty)], tools)
     IN /\ calls' = [calls EXCEPT ![p] = run.c]
        /\ tools' = run.tls
  /\ UNCHANGED <<workflows, nextId>>

\* the handler a run of the older manager waits for settles
OldHandlerSettles(p, outcome) ==
  /\ calls[p].pc = "handler"
  /\ outcome \in HandlerOutcomes(calls[p].pending.handler, calls[p].pending.seen)
  /\ LET c == calls[p]
         toolOutput == ExecuteToolFinish(c.pending, outcome)
         settled == [c EXCEPT !.pending = NoPending]
         run == IF ~toolOutput.ok
                THEN [c |-> StepFailed([settled EXCEPT !.log = Append(@, Event("throw", c, c.pending.tool,
                                                                              toolOutput.err, NoSchema))],
                                       toolOutput.err),
                      tls |-> tools]
                ELSE IF c.fanout
                THEN OldRunSteps([settled EXCEPT !.results = PushResult(@, toolOutput.v),
                                                 !.i = @ + 1,
                                                 !.log = Append(@, Event("return", c, c.pending.tool,
                                                                         toolOutput.v, NoSchema))],
                                 tools)
                ELSE OldRunSteps(OldPlainDone([settled EXCEPT
                                                 !.log = Append(@, Event("return", c, c.pending.tool,
                                                                         toolOutput.v, NoSchema))],
                                              toolOutput.v), tools)
     IN /\ calls' = [calls EXCEPT ![p] = run.c]
        /\ tools' = run.tls
  /\ UNCHANGED <<workflows, nextId>>

NextOld ==
  \/ \E p \in SyncCaller :
       /\ calls[p].pc = "idle"
       /\ \E id \in WorkflowIds(workflows) \cup {"no-such-id"}, input \in FlowInputs :
            OldExecuteWorkflow(p, id, input)
  \/ \E p \in SyncCaller, outcome \in HandlerResults : OldHandlerSettles(p, outcome)
  \/ \E p \in SyncCaller : Return(p)

SpecOld == InitFlow /\ [][NextOld]_vars

\* ------------------------------------------------- the host on the socket
\* WebSocketHandler on WebSocketModule: calls[Host] is the socket server,
\* calls[n] the engine call the n-th message received has started
Host == 0
Sockets == 1..MaxSockets
Requests == 1..MaxRequests
\* Math.random().toString(36).substring(7): nothing keeps two draws apart
ClientIds == {"k3x9f", "p0q2z"}
\* Math.random().toString(36).substring(2, 15)
generateSessionId == "0k3x9fp0q2z"

NoSocket == [readyState |-> "NONE", clientId |-> ""]
NoRequest == [ws |-> 0, sessionId |-> "", message |-> [type |-> "", data |-> Undef]]
NoServer ==
  [clients |-> <<>>, sockets |-> [w \in Sockets |-> NoSocket],
   requests |-> [n \in Requests |-> NoRequest], received |-> 0, sends |-> <<>>]

\* the messages the clients send
HostMessages ==
  {[type |-> "EXECUTE_TOOL", data |-> [toolName |-> toolName, input |-> input]] :
     toolName \in {"content_idea_generator", "missing_tool"},
     input \in {Obj([topic |-> Str("ai")]), Obj([topic |-> Num(5)])}}
  \cup {[type |-> "CREATE_WORKFLOW", data |-> workflow] :
          workflow \in {DefaultWorkflow, UnknownToolWorkflow}}
  \cup {[type |-> "EXECUTE_WORKFLOW", data |-> [workflowId |-> id, input |-> Obj([topic |-> Str("ai")])]] :
          id \in {"wf-0", "no-such-id"}}
  \cup {[type |-> "TRANSCRIBED_DATA", data |-> Str("text")]}

\* a host that keeps a failure to itself
sendErrorSilent(h, n, sessionId, message) == h

\* sendMessageToClient(sessionId, message): clients.find takes the first client
\* with the id, and the message goes out if its socket is open.  Every call is
\* kept, with the message it answers and the socket that got it (0: none).
sendMessageToClient(h, n, sessionId, message) ==
  LET found == {j \in DOMAIN h.clients : h.clients[j].id = sessionId}
      client == h.clients[CHOOSE j \in found : \A k \in found : j <= k]
      open == found # {} /\ h.sockets[client.ws].readyState = "OPEN"
  IN [h EXCEPT !.sends = Append(@, [req |-> n, sessionId |-> sessionId, message |-> message,
                                    ws |-> IF open THEN client.ws ELSE 0])]
sendSuccess(h, n, sessionId, data) ==
  sendMessageToClient(h, n, sessionId, [status |-> "success", data |-> data])
sendError(h, n, sessionId, message) ==
  sendMessageToClient(h, n, sessionId, [status |-> "error", message |-> message])

\* the try/catch of the three handlers: the result goes out as a success, the
\* error thrown as an error, and a call that waits for a handler sends nothing
Answer(h, n, sessionId, c) ==
  IF c.pc = "done" THEN sendSuccess(h, n, sessionId, c.result.v)
  ELSE IF c.pc = "failed" THEN sendError(h, n, sessionId, c.result.err.msg)
  ELSE h

\* toolExecutor.executeToolWithJsonOutput(toolName, input), to its handler call
HostToolCall(tls, toolName, input) ==
  LET st == ExecuteToolWithJsonOutputStart(tls, toolName, input)
      started == [IdleCall EXCEPT !.kind = "tool", !.arg = Str(toolName)]
  IN [c |-> IF ~st.ok THEN [started EXCEPT !.pc = "failed", !.result = Throw(st.err)]
            ELSE [started EXCEPT !.pc = "handler", !.pending = HandlerCall(st.tls, toolName)],
      tls |-> st.tls, wfs |-> <<>>]

\* workflowManager.createWorkflow(message.data)
HostCreateCall(tls, wfs, n, workflow) ==
  LET checked == CheckSteps(tls, workflow.steps)
      started == [IdleCall EXCEPT !.kind = "create", !.arg = workflow]
  IN IF checked.ok
     THEN [c |-> [started EXCEPT !.pc = "done",
                                 !.result = Ok(Obj([workflowId |-> Str(uuidv4(n))]))],
           tls |-> tls, wfs |-> registryCreateWorkflow(wfs, n, workflow)]
     ELSE [c |-> [started EXCEPT !.pc = "failed", !.result = checked], tls |-> tls, wfs |-> wfs]

\* the switch of handleWebSocketMessage, each case to its first await or to its end
Dispatch(tls, wfs, n, message) ==
  LET Stored(run) == [c |-> run.c, tls |-> run.tls, wfs |-> wfs]
  IN
  CASE message.type = "EXECUTE_TOOL" ->
         Stored(HostToolCall(tls, message.data.toolName, message.data.input))
    [] message.type = "CREATE_WORKFLOW" -> HostCreateCall(tls, wfs, n, message.data)
    [] message.type = "EXECUTE_WORKFLOW" ->
         Stored(StartWorkflow(wfs, tls, message.data.workflowId, message.data.input))
    [] OTHER ->
         [c |-> [IdleCall EXCEPT !.kind = "unsupported", !.pc = "failed",
                                 !.result = Throw(Error(<<"Unsupported message type">>))],
          tls |-> tls, wfs |-> wfs]

\* the host has registered its tools and stored its default workflow
InitHost ==
  /\ tools = registerTool(registerTool(Empty, IdeaTool), ProductionTool)
  /\ workflows = registryCreateWorkflow(<<>>, 0, DefaultWorkflow)
  /\ nextId = 1
  /\ calls = [n \in {Host} \cup Requests |-> IF n = Host THEN NoServer ELSE IdleCall]

\* socket.on("connection"): the client gets its id and joins the clients
Connection(w, clientId) ==
  /\ calls[Host].sockets[w].readyState = "NONE"
  /\ calls' = [calls EXCEPT ![Host].sockets[w] = [readyState |-> "OPEN", clientId |-> clientId],
                            ![Host].clients = Append(@, [id |-> clientId, ws |-> w])]
  /\ UNCHANGED <<tools, workflows, nextId>>

\* ws.on("close"): the client leaves the clients
Close(w) ==
  /\ calls[Host].sockets[w].readyState = "OPEN"
  /\ calls' = [calls EXCEPT ![Host].sockets[w].readyState = "CLOSED",
                            ![Host].clients = SelectSeq(@, LAMBDA client : client.ws # w)]
  /\ UNCHANGED <<tools, workflows, nextId>>

\* ws.on("message") and WebSocketHandler.handleWebSocketMessage(message, ws), to
\* the first await of the handler it picks or to the response it sends
HandleWebSocketMessage(w, message) ==
  /\ calls[Host].sockets[w].readyState = "OPEN"
  /\ calls[Host].received < MaxRequests
  /\ \E n \in {calls[Host].received + 1},
        sessionId \in {IF calls[Host].sockets[w].clientId # ""
                       THEN calls[Host].sockets[w].clientId ELSE generateSessionId},
        run \in {Dispatch(tools, workflows, nextId, message)} :
       /\ calls' = [calls EXCEPT
                      ![n] = run.c,
                      ![Host] = Answer([@ EXCEPT !.received = n,
                                                 !.requests[n] = [ws |-> w, sessionId |-> sessionId,
                                                                  message |-> message]],
                                       n, sessionId, run.c)]
       /\ tools' = run.tls
       /\ workflows' = run.wfs
       /\ nextId' = IF run.wfs # workflows THEN nextId + 1 ELSE nextId

\* the handler the n-th message waits for settles: the engine call goes on to
\* its next await or to its end, and the host answers when it has ended
HostHandlerSettles(n, outcome) ==
  /\ calls[n].pc = "handler"
  /\ outcome \in HandlerOutcomes(calls[n].pending.handler, calls[n].pending.seen)
  /\ \E finished \in {ExecuteToolWithJsonOutputFinish(calls[n].pending, outcome)} :
     \E run \in {IF calls[n].kind = "workflow" THEN ResumeWorkflow(calls[n], tools, outcome)
                 ELSE [c |-> [calls[n] EXCEPT !.pc = IF finished.ok THEN "done" ELSE "failed",
                                              !.pending = NoPending,
                                              !.result = finished],
                       tls |-> tools]} :
       /\ calls' = [calls EXCEPT ![n] = run.c,
                                 ![Host] = Answer(@, n, calls[Host].requests[n].sessionId, run.c)]
       /\ tools' = run.tls
  /\ UNCHANGED <<workflows, nextId>>

HostHandlerResults ==
  UNION {HandlerOutcomes(calls[n].pending.handler, calls[n].pending.seen) : n \in Requests}

NextHost ==
  \/ \E w \in Sockets, clientId \in ClientIds : Connection(w, clientId)
  \/ \E w \in Sockets : Close(w)
  \/ \E w \in Sockets, message \in HostMessages : HandleWebSocketMessage(w, message)
  \/ \E n \in Requests, outcome \in HostHandlerResults : HostHandlerSettles(n, outcome)

SpecHost == InitHost /\ [][NextHost]_vars

\* ------------------------------------------------------- reading a history
WorkflowRuns == {p \in Callers : calls[p].kind = "workflow"}
EventsOf(log, e) == SelectSeq(log, LAMBDA ev : ev.e = e)
EventsAt(log, e, k) == SelectSeq(log, LAMBDA ev : ev.e = e /\ ev.step = k)
DataOf(events) == [j \in DOMAIN events |-> events[j].data]

\* ------------------------------------------- invocations that interleave
\* two callers at once
Racers == {1, 2}

InitRace ==
  /\ tools = Empty
  /\ workflows = <<>>
  /\ nextId = 0
  /\ calls = [p \in Racers |-> IdleCall]

\* a handler that is still running reads toolArgs again: it was given
\* tool.interface itself (ToolExecutor.ts 31), the object line 27 writes for every
\* call of the tool
HandlerReads(p) ==
  /\ calls[p].pc = "handler"
  /\ EventsOf(calls[p].log, "read") = <<>>
  /\ LET toolArgs == tools[calls[p].pending.tool].interface.toolArgs
     IN calls' = [calls EXCEPT ![p].pending.seen = toolArgs,
                               ![p].log = Append(@, Event("read", calls[p], calls[p].pending.tool,
                                                          toolArgs, NoSchema))]
  /\ UNCHANGED <<tools, workflows, nextId>>

NextRace ==
  \/ \E tool \in ToolCatalog : (\A p \in Racers : calls[p].pc # "handler") /\ RegisterTool(tool)
  \/ \E p \in Racers, workflow \in {FanOutWorkflow} : CreateWorkflow(p, workflow)
  \/ \E p \in Racers, id \in WorkflowIds(workflows) : ExecuteWorkflow(p, id, Obj([topic |-> Str("ai")]))
  \/ \E p \in Racers, toolName \in ToolNames, input \in ToolInputs : ExecuteTool(p, toolName, input)
  \/ \E p \in Racers : HandlerReads(p)
  \/ \E p \in Racers, outcome \in HandlerResults : HandlerSettles(p, outcome)
  \/ \E p \in Racers : Return(p)

\* the engine with two calls in progress
SpecRace == InitRace /\ [][NextRace]_vars


\* the first "[$index]" of a mapping value, and the path behind it
IndexAt(p) == CHOOSE j \in DOMAIN p : p[j] = "$index" /\ \A k \in 1..(j - 1) : p[k] # "$index"
RestAfterIndex(p) == SubSeq(p, IndexAt(p) + 3, Len(p))
\* what element i contributes to a field mapped through base[$index].rest
ElementField(array, i, p) ==
  IF RestAfterIndex(p) = <<>> THEN ElementAt(array, i)
  ELSE getValueFromPath(ElementAt(array, i), RestAfterIndex(p)).v
\* the payload of element i, field by field
ExpectedElementInput(step, array, i) ==
  Obj([key \in {step.inputMapping[j].key : j \in IndexedValues(step)} |->
         ElementField(array, i,
           step.inputMapping[CHOOSE j \in IndexedValues(step) : step.inputMapping[j].key = key].value.p)])

\* C1: a fan-out step over an array of length n calls its tool once per element,
\* the i-th call with the input mapped for $index = i (never more than n calls, and
\* in element order while the step is under way); once the step is over there were
\* exactly n calls and the step's output, its context entry and, for a last step,
\* the workflow result are the n tool outputs in element order.
C1_FanOutOncePerElement ==
  \A p \in WorkflowRuns :
    LET c == calls[p]
    IN \A a \in DOMAIN c.log :
         c.log[a].e = "fanout" =>
           LET k == c.log[a].step
               array == c.log[a].data.a
               step == c.workflow.steps[k + 1]
               invoked == EventsAt(c.log, "call", k)
               returned == EventsAt(c.log, "return", k)
           IN /\ Len(invoked) <= Len(array)
              /\ \A j \in DOMAIN invoked :
                   /\ invoked[j].elem = j - 1
                   /\ invoked[j].tool = step.toolName
                   /\ invoked[j].data = ExpectedElementInput(step, array, j - 1)
              /\ c.index > k =>
                   /\ Len(invoked) = Len(array)
                   /\ Len(returned) = Len(array)
                   /\ GetProp(GetProp(c.executionContext, ContextKey(k)), "output")
                        = Arr(DataOf(returned))
              /\ c.index = k + 1 => GetProp(c.currentOutput, "output") = Arr(DataOf(returned))
              /\ (c.pc = "done" /\ k + 1 = Len(c.workflow.steps)) =>
                   c.result = Ok([chunks |-> <<Arr(DataOf(returned))>>, closed |-> TRUE])

\* a run that finished a fan-out over two elements
C1_Witness ==
  \E p \in WorkflowRuns :
    /\ calls[p].pc = "done"
    /\ \E a \in DOMAIN calls[p].log :
         /\ calls[p].log[a].e = "fanout"
         /\ Len(calls[p].log[a].data.a) = 2
         /\ Len(EventsAt(calls[p].log, "return", calls[p].log[a].step)) = 2

\* C2: once anything throws inside step k the run has failed: the throw is the last
\* thing the run did (no call of a later step, no second call of the failed
\* invocation), and the caller gets the error, never a stream.
C2_HaltAtFirstFailure ==
  \A p \in WorkflowRuns :
    LET c == calls[p]
    IN /\ \A a \in DOMAIN c.log :
            c.log[a].e = "throw" =>
              /\ a = Len(c.log)
              /\ c.pc = "failed"
              /\ ~c.result.ok
              /\ \A b \in DOMAIN c.log : c.log[b].step <= c.log[a].step
       /\ \A a, b \in DOMAIN c.log :
            (c.log[a].e = "call" /\ c.log[b].e = "call" /\ a # b) =>
              <<c.log[a].step, c.log[a].elem>> # <<c.log[b].step, c.log[b].elem>>
       /\ c.pc = "done" => c.result.ok

\* a run that failed in its second step, after the first one had produced its output
C2_Witness ==
  \E p \in WorkflowRuns :
    /\ calls[p].pc = "failed"
    /\ calls[p].log # <<>>
    /\ calls[p].log[Len(calls[p].log)].e = "throw"
    /\ calls[p].log[Len(calls[p].log)].step = 1
    /\ GetProp(calls[p].currentOutput, "output") # Null

InOrder(x, y) == x.step < y.step \/ (x.step = y.step /\ x.elem < y.elem)
InFlight(log) ==
  {a \in DOMAIN log : log[a].e = "handler"
                      /\ ~\E m \in (a + 1)..Len(log) : log[m].e \in {"return", "throw"}}

\* C4: the calls of a run are made in step order and, inside a fan-out, in element
\* order, each on the tool of its step; between two calls the earlier one has
\* returned or thrown, so a run never has two invocations in flight.
C4_SequentialInvocations ==
  \A p \in WorkflowRuns :
    LET c == calls[p]
        invoked == EventsOf(c.log, "call")
    IN /\ \A j \in 1..(Len(invoked) - 1) : InOrder(invoked[j], invoked[j + 1])
       /\ \A j \in DOMAIN invoked : invoked[j].tool = c.workflow.steps[invoked[j].step + 1].toolName
       /\ \A a, b \in DOMAIN c.log :
            (a < b /\ c.log[a].e = "call" /\ c.log[b].e = "call") =>
              \E m \in (a + 1)..(b - 1) : c.log[m].e \in {"return", "throw"}
       /\ Cardinality(InFlight(c.log)) <= 1
       /\ (c.pc = "handler") <=> (InFlight(c.log) # {})

\* a run waiting on the second element of a fan-out, two invocations behind it
C4_Witness ==
  \E p \in WorkflowRuns :
    /\ calls[p].pc = "handler"
    /\ calls[p].fanout /\ calls[p].elem = 1
    /\ Len(EventsOf(calls[p].log, "return")) = 2

\* the step a failed run failed in, and what was thrown there
FailedInStep(c) ==
  c.kind = "workflow" /\ c.pc = "failed" /\ c.log # <<>> /\ c.log[Len(c.log)].e = "throw"
Cause(c) == c.log[Len(c.log)].data
Mentions(msg, piece) == \E j \in DOMAIN msg : msg[j] = piece
EndsWith(msg, tail) == Len(tail) <= Len(msg) /\ SubSeq(msg, Len(msg) - Len(tail) + 1, Len(msg)) = tail

SchemasOf(toolName) == {t \in ToolCatalog : t.interface.toolName = toolName}

\* C5: whoever made the call, a handler only ever runs on the input of that call,
\* and that input satisfies the tool's input schema; a result is handed on (to the
\* caller, into the results of a fan-out, into the run's output) only if it
\* satisfies the tool's output schema.
C5_ValidationBracketsHandler ==
  \A p \in Callers :
    LET c == calls[p]
        handedOn == {ev.data : ev \in Range(EventsOf(c.log, "return"))}
    IN /\ \A a \in DOMAIN c.log :
            c.log[a].e = "handler" =>
              /\ a > 1 /\ c.log[a - 1].e = "call" /\ c.log[a - 1].tool = c.log[a].tool
              /\ c.log[a].data = c.log[a - 1].data
              /\ c.log[a].schema \in {t.inputSchema : t \in SchemasOf(c.log[a].tool)}
              /\ Validate(c.log[a].data, c.log[a].schema)
       /\ \A a \in DOMAIN c.log :
            c.log[a].e = "return" =>
              /\ c.log[a].schema \in {t.outputSchema : t \in SchemasOf(c.log[a].tool)}
              /\ Validate(c.log[a].data, c.log[a].schema)
       /\ \A j \in DOMAIN c.results : c.results[j] \in handedOn
       /\ (c.kind = "tool" /\ c.pc = "done") => c.result.v \in handedOn
       /\ (c.kind = "workflow" /\ c.pc # "idle" /\ c.workflow.steps # <<>>) =>
            LET out == GetProp(c.currentOutput, "output")
            IN out = Null \/ out \in handedOn
               \/ (IsArray(out) /\ \A j \in DOMAIN out.a : out.a[j] \in handedOn)

\* a run inside a fan-out whose handler has run on a validated element input, one
\* validated result already collected
C5_Witness ==
  \E p \in WorkflowRuns :
    /\ calls[p].pc = "handler" /\ calls[p].fanout
    /\ Len(calls[p].results) = 1
    /\ calls[p].log[Len(calls[p].log)].e = "handler"

\* C6: executeTool on an input that violates the tool's input schema fails with
\* "Invalid input for tool <name>", calls no handler and leaves the registry, the
\* tool's stored definition included, as it was.
C6_InvalidInputRejected ==
  [][\A p \in Callers, toolName \in ToolNames, input \in ToolInputs :
       (/\ ExecuteTool(p, toolName, input)
        /\ toolName \in DOMAIN tools
        /\ ~Validate(input, tools[toolName].inputSchema))
       => /\ calls'[p].pc = "failed"
          /\ ~calls'[p].result.ok
          /\ SubSeq(calls'[p].result.err.msg, 1, 2) = <<"Invalid input for tool ", toolName>>
          /\ EventsOf(calls'[p].log, "handler") = <<>>
          /\ tools' = tools
          /\ workflows' = workflows]_vars

\* a direct call turned down for its input
C6_Witness ==
  \E p \in Callers :
    /\ calls[p].kind = "tool" /\ calls[p].pc = "failed"
    /\ calls[p].result.err.msg[1] = "Invalid input for tool "

\* C7: when the handler's result violates the tool's output schema the call fails
\* with "Invalid output from tool <name>" and the result goes nowhere: not to the
\* caller, not into a run's results.
C7_InvalidOutputRejected ==
  [][\A p \in Callers, outcome \in HandlerResults :
       (/\ HandlerSettles(p, outcome)
        /\ outcome.ok
        /\ ~Validate(outcome.v, calls[p].pending.outputSchema))
       => /\ calls'[p].pc = "failed"
          /\ ~calls'[p].result.ok
          /\ \E j \in DOMAIN calls'[p].result.err.msg :
               /\ calls'[p].result.err.msg[j] = "Invalid output from tool "
               /\ calls'[p].result.err.msg[j + 1] = calls[p].pending.tool
          /\ calls[p].kind = "tool" =>
               SubSeq(calls'[p].result.err.msg, 1, 2)
                 = <<"Invalid output from tool ", calls[p].pending.tool>>
          /\ EventsOf(calls'[p].log, "return") = EventsOf(calls[p].log, "return")
          /\ calls'[p].results = calls[p].results
          /\ calls'[p].currentOutput = calls[p].currentOutput]_vars

\* a direct call whose handler's result was turned down
C7_Witness ==
  \E p \in Callers :
    /\ calls[p].kind = "tool" /\ calls[p].pc = "failed"
    /\ calls[p].result.err.msg[1] = "Invalid output from tool "

ToolNotFound(toolName) == Error(<<"Tool ", toolName, " not found">>)

\* C8: a call of executeTool with a name the registry does not have fails with
\* "Tool <name> not found", reaches no handler and leaves the registry alone,
\* in the ToolExecutor and in DynamicRAGBuilder alike.
C8_ToolNotFound ==
  \A p \in Callers :
    (calls[p].kind = "tool" /\ calls[p].arg.s \notin DOMAIN tools) =>
      /\ calls[p].pc = "failed"
      /\ calls[p].result = Throw(ToolNotFound(calls[p].arg.s))
      /\ EventsOf(calls[p].log, "handler") = <<>>

\* C9: WorkflowManager.createWorkflow on a definition with a step on an
\* unregistered tool fails: the caller gets an error and no identifier, the stored
\* workflows and the registry stay as they were, and no tool is called.
C9_UnknownToolFailsCreation ==
  [][\A p \in Callers, workflow \in WorkflowCatalog :
       (/\ CreateWorkflow(p, workflow)
        /\ \E j \in DOMAIN workflow.steps : workflow.steps[j].toolName \notin DOMAIN tools)
       => /\ calls'[p].pc = "failed"
          /\ ~calls'[p].result.ok
          /\ workflows' = workflows
          /\ nextId' = nextId
          /\ tools' = tools
          /\ calls'[p].log = <<>>
          /\ \A q \in Callers \ {p} : calls'[q] = calls[q]]_vars

\* a creation turned down for a tool that is not there, the registry still empty of workflows
C9_Witness ==
  \E p \in Callers :
    /\ calls[p].kind = "create" /\ calls[p].pc = "failed"
    /\ Len(calls[p].result.err.msg) = 3
    /\ calls[p].result.err.msg[3] = " not found in registry"
    /\ calls[p].arg = UnknownToolWorkflow

StepPasses(tls, step) ==
  /\ step.toolName \in DOMAIN tls
  /\ \A j \in DOMAIN step.inputMapping :
       step.inputMapping[j].key \in DOMAIN tls[step.toolName].inputSchema.properties

\* C10: createWorkflow fails and stores nothing when a step maps a key its tool's
\* input schema does not declare; when every step names a registered tool and maps
\* declared keys only, it returns a new identifier under which the registry holds
\* the definition, its steps in the same order.
C10_MappingKeysChecked ==
  [][\A p \in Callers, workflow \in WorkflowCatalog :
       CreateWorkflow(p, workflow) =>
         IF \A j \in DOMAIN workflow.steps : StepPasses(tools, workflow.steps[j])
         THEN /\ calls'[p].pc = "done"
              /\ calls'[p].result.ok
              /\ calls'[p].result.v.s \notin WorkflowIds(workflows)
              /\ Len(workflows') = Len(workflows) + 1
              /\ \A j \in DOMAIN workflows : workflows'[j] = workflows[j]
              /\ getWorkflow(workflows', calls'[p].result.v.s).steps = workflow.steps
              /\ getWorkflow(workflows', calls'[p].result.v.s).name = workflow.name
         ELSE /\ calls'[p].pc = "failed"
              /\ ~calls'[p].result.ok
              /\ workflows' = workflows
              /\ nextId' = nextId]_vars

\* a creation turned down for a mapping key the tool does not declare
C10_Witness ==
  \E p \in Callers :
    /\ calls[p].kind = "create" /\ calls[p].pc = "failed"
    /\ calls[p].result.err.msg[1] = "Invalid input mapping: "
    /\ calls[p].result.err.msg[2] = "subject"
    /\ workflows = <<>>

\* C11: whatever path stores a workflow (WorkflowManager.createWorkflow, the
\* CREATE_WORKFLOW message, the default-workflow setup, the registry's own
\* createWorkflow), every step of the workflow it stores names a tool registered at
\* that moment and maps only keys that tool's input schema declares.
C11_StoredStepsChecked ==
  [][\A j \in DOMAIN workflows' :
       j \notin DOMAIN workflows =>
         \A s \in DOMAIN workflows'[j].steps : StepPasses(tools, workflows'[j].steps[s])]_vars

\* a handler that is a function of the arguments it is given
PureOutcome(handler, args) ==
  CASE handler = "ideas" ->
         Ok(Obj([ideas |-> Arr(<<Obj([idea |-> Str("A")]), Obj([idea |-> Str("B")])>>)]))
    [] handler = "produce" -> Ok(Obj([content |-> GetProp(args, "title")]))
    [] OTHER -> Throw(Error(<<"no handler">>))
\* a run carried to its end with such handlers
RECURSIVE PureRun(_)
PureRun(run) ==
  IF run.c.pc # "handler" THEN run
  ELSE PureRun(ResumeWorkflow(run.c, run.tls,
                              PureOutcome(run.c.pending.handler, run.c.pending.seen)))
AllIdle == \A p \in DOMAIN calls : calls[p].pc = "idle"

OwnInput(log, a) ==
  log[CHOOSE m \in 1..(a - 1) : log[m].e = "call" /\ \A k \in (m + 1)..(a - 1) : log[k].e # "call"].data

\* C13: when invocations interleave, whatever a handler reads of its arguments, at
\* its start or later, is the validated input of its own invocation; and a step of
\* one run leaves the currentOutput and executionContext of the other run alone.
C13_OwnInputOnly ==
  /\ [](\A p \in DOMAIN calls : \A a \in DOMAIN calls[p].log :
          calls[p].log[a].e \in {"handler", "read"} =>
            calls[p].log[a].data = OwnInput(calls[p].log, a))
  /\ [][\A p, q \in DOMAIN calls :
          (p # q /\ calls'[p].currentOutput # calls[p].currentOutput) =>
            /\ calls'[q].currentOutput = calls[q].currentOutput
            /\ calls'[q].executionContext = calls[q].executionContext]_vars

\* C14: a registered tool's definition (name, schemas, handler, interface object)
\* changes only when registerTool is called with its name; no call of executeTool
\* or executeWorkflow, ended well or not, changes it.
C14_ToolsImmutable ==
  [][\A n \in DOMAIN tools :
       tools'[n] # tools[n] =>
         \E tool \in ToolCatalog : tool.interface.toolName = n /\ RegisterTool(tool)]_vars

\* C15: in every state registerTool can be called with any definition and does not
\* fail, and it is an upsert by name: right after it getTool of the name gives the
\* definition just passed, whatever was stored under the name before; the tools
\* under other names are as they were; registering the same definition once more
\* changes nothing.
C15_RegisterToolUpserts ==
  \A tool \in ToolCatalog :
    ENABLED (/\ RegisterTool(tool)
             /\ getTool(tools', tool.interface.toolName) = tool
             /\ DOMAIN tools' = (DOMAIN tools) \cup {tool.interface.toolName}
             /\ \A m \in (DOMAIN tools) \ {tool.interface.toolName} : tools'[m] = tools[m]
             /\ registerTool(tools', tool) = tools'
             /\ calls' = calls)

\* a tool registered again after a call had written its arguments: the registry
\* holds the definition as registered, not the one the handler was given
C15_Witness ==
  \E p \in Callers : \E a \in DOMAIN calls[p].log :
    /\ calls[p].log[a].e = "handler"
    /\ \A b \in (a + 1)..Len(calls[p].log) : calls[p].log[b].e # "handler"
    /\ calls[p].log[a].tool \in DOMAIN tools
    /\ tools[calls[p].log[a].tool] \in ToolCatalog
    /\ tools[calls[p].log[a].tool].interface.toolArgs # calls[p].log[a].data
    /\ Cardinality(DOMAIN tools) = 2

\* C16: every call of the registry's createWorkflow returns an identifier no
\* earlier call returned, stores the definition under it with that identifier as
\* its id, and leaves every workflow stored before in place, unchanged and
\* retrievable, also when the new definition equals a stored one or shares its name.
C16_FreshIdentifier ==
  [][\A p \in SyncCaller, workflow \in StoredDefinitions :
       CreateWorkflowInRegistry(p, workflow) =>
         LET id == calls'[p].result.v.s
         IN /\ calls'[p].result.ok
            /\ \A n \in 0..(nextId - 1) : id # uuidv4(n)
            /\ id \notin WorkflowIds(workflows)
            /\ getWorkflow(workflows', id)
                 = [id |-> id, name |-> workflow.name, description |-> workflow.description,
                    steps |-> workflow.steps]
            /\ Len(workflows') = Len(workflows) + 1
            /\ \A j \in DOMAIN workflows :
                 /\ workflows'[j] = workflows[j]
                 /\ getWorkflow(workflows', workflows[j].id) = workflows[j]]_vars

\* the same definition stored twice, under two identifiers
C16_Witness ==
  \E p \in SyncCaller :
    /\ calls[p].kind = "store" /\ calls[p].pc = "done"
    /\ \E j, k \in DOMAIN workflows :
         /\ j < k
         /\ workflows[k].id = calls[p].result.v.s
         /\ workflows[j].id # workflows[k].id
         /\ workflows[j].steps = workflows[k].steps
         /\ workflows[j].name = workflows[k].name

\* C17: a stored workflow stays as it was stored: whatever happens later (tools
\* registered, workflows created, the caller changing the definition it passed in
\* or its steps list), the registry holds it with the same name, description and steps.
C17_StoredWorkflowFrozen ==
  [][\A j \in DOMAIN workflows :
       /\ j \in DOMAIN workflows'
       /\ workflows'[j] = workflows[j]]_vars

\* C18: getWorkflowByName gives, of the stored workflows with that name, the one
\* created first, and no workflow (without failing) when none has the name.
C18_FirstMatchByName ==
  [][\A p \in SyncCaller, name \in WorkflowNames :
       GetWorkflowByName(p, name) =>
         LET matches == {j \in DOMAIN workflows : workflows[j].name = name}
         IN /\ calls'[p].pc = "done"
            /\ calls'[p].result.ok
            /\ IF matches = {} THEN calls'[p].result.v = Undef
               ELSE \E j \in matches :
                      /\ \A k \in matches : j <= k
                      /\ calls'[p].result.v = workflows[j]]_vars

\* a lookup by a name two stored workflows share, the first of them behind a
\* workflow of another name
C18_Witness ==
  \E p \in SyncCaller :
    /\ calls[p].kind = "byName" /\ calls[p].pc = "done"
    /\ Len(workflows) = 3
    /\ workflows[1].name # calls[p].arg.s
    /\ workflows[2].name = calls[p].arg.s
    /\ workflows[3].name = calls[p].arg.s
    /\ calls[p].result.v = workflows[2]

\* a segment that names what the claim asks for on the value reached: a property
\* of a plain object, which for an indexed segment is an array holding the index
SegOk(v, seg) ==
  /\ v.t = "obj"
  /\ seg.name \in DOMAIN v.o
  /\ seg.index >= 0 => (v.o[seg.name].t = "arr" /\ seg.index < Len(v.o[seg.name].a))
SegValue(v, seg) ==
  IF seg.index < 0 THEN v.o[seg.name] ELSE v.o[seg.name].a[seg.index + 1]
RECURSIVE Covered(_, _)
Covered(v, segs) ==
  segs = <<>> \/ (SegOk(v, Head(segs)) /\ Covered(SegValue(v, Head(segs)), Tail(segs)))
\* the value stored at the nested position
RECURSIVE Selected(_, _)
Selected(v, segs) ==
  IF segs = <<>> THEN v ELSE Selected(SegValue(v, Head(segs)), Tail(segs))
PathCalls == {p \in DOMAIN calls : calls[p].kind = "path"}
AllPlain(segs) == \A j \in DOMAIN segs : segs[j].index < 0

\* C19: for a dotted path of plain segments, each naming a property of the object
\* reached so far, getValueFromPath returns the value stored at that position.
C19_PlainPathResolves ==
  \A p \in PathCalls :
    (AllPlain(calls[p].arg.segs) /\ Covered(calls[p].arg.obj, calls[p].arg.segs)) =>
      calls[p].result = Ok(Selected(calls[p].arg.obj, calls[p].arg.segs))

\* "a.b.c" on {a: {b: {c: 42}}}
C19_Witness ==
  \E p \in PathCalls :
    /\ Len(calls[p].arg.segs) = 3
    /\ AllPlain(calls[p].arg.segs)
    /\ Covered(calls[p].arg.obj, calls[p].arg.segs)
    /\ calls[p].result = Ok(Num(42))

\* C20: for a path with indexed segments name[i], name an array property of the
\* value reached and i inside it, getValueFromPath takes element i at each of them
\* and goes on from that element.
C20_IndexedPathSelects ==
  \A p \in PathCalls :
    (~AllPlain(calls[p].arg.segs) /\ Covered(calls[p].arg.obj, calls[p].arg.segs)) =>
      calls[p].result = Ok(Selected(calls[p].arg.obj, calls[p].arg.segs))

\* "a.b[1].c" on {a: {b: [{c: 42}, {c: 43}]}}
C20_Witness ==
  \E p \in PathCalls :
    /\ Len(calls[p].arg.segs) = 3
    /\ calls[p].arg.segs[2].index = 1
    /\ Covered(calls[p].arg.obj, calls[p].arg.segs)
    /\ calls[p].result = Ok(Num(43))

\* the path without its last segment, and that segment
Front(segs) == SubSeq(segs, 1, Len(segs) - 1)
Last(segs) == segs[Len(segs)]
\* property k of an array element, undefined when the element has none
FieldOf(e, k) == IF e.t = "obj" /\ k \in DOMAIN e.o THEN e.o[k] ELSE Undef
\* the last segment is plain and meets an array
Broadcasts(obj, segs) ==
  /\ Len(segs) >= 2
  /\ Last(segs).index < 0
  /\ Covered(obj, Front(segs))
  /\ Selected(obj, Front(segs)).t = "arr"

\* C21: a plain segment k applied to an array yields the array, of the same length
\* and in element order, of property k of each element; an element without
\* property k gives an undefined member and the resolution does not fail.
C21_BroadcastLaw ==
  \A p \in PathCalls :
    Broadcasts(calls[p].arg.obj, calls[p].arg.segs) =>
      LET array == Selected(calls[p].arg.obj, Front(calls[p].arg.segs)).a
      IN calls[p].result =
           Ok(Arr([j \in DOMAIN array |-> FieldOf(array[j], Last(calls[p].arg.segs).name)]))

\* the last segment is plain and names no property of the plain object reached
MissesProperty(obj, segs) ==
  /\ Len(segs) >= 1
  /\ Last(segs).index < 0
  /\ Covered(obj, Front(segs))
  /\ Selected(obj, Front(segs)).t = "obj"
  /\ Last(segs).name \notin DOMAIN Selected(obj, Front(segs)).o

\* C22: when the last plain segment names a property that the non-null,
\* non-array object reached so far does not have, getValueFromPath returns
\* undefined and raises no error.
C22_MissingPropertyIsUndefined ==
  \A p \in PathCalls :
    MissesProperty(calls[p].arg.obj, calls[p].arg.segs) => calls[p].result = Ok(Undef)

\* "a.b.d" on {a: {b: {c: 42}}}
C22_Witness ==
  \E p \in PathCalls :
    /\ Len(calls[p].arg.segs) = 3
    /\ MissesProperty(calls[p].arg.obj, calls[p].arg.segs)
    /\ calls[p].result = Ok(Undef)

\* the walk along segs ends on null or on nothing: a null root, a null field,
\* or a property that the object reached does not have
ReachesNullish(obj, segs) ==
  \/ Covered(obj, segs) /\ IsNullish(Selected(obj, segs))
  \/ MissesProperty(obj, segs)
\* the text of a segment as the path spells it
SegmentText(seg) ==
  IF seg.index < 0 THEN seg.name
  ELSE seg.name \o "[" \o ToString(seg.index) \o "]"

\* C23: whenever the value reached so far is null or absent, the root included,
\* and a segment s remains, getValueFromPath fails with the path-resolution error
\* that names s; it returns no value.
C23_MissingPathLaw ==
  \A p \in PathCalls :
    \A k \in DOMAIN calls[p].arg.segs :
      ReachesNullish(calls[p].arg.obj, SubSeq(calls[p].arg.segs, 1, k - 1)) =>
        calls[p].result =
          Throw(Error(<<"Path resolution failed at ", SegmentText(calls[p].arg.segs[k])>>))

\* "a.b.c" on {a: {b: null}}
C23_Witness ==
  \E p \in PathCalls :
    /\ Len(calls[p].arg.segs) = 3
    /\ Covered(calls[p].arg.obj, Front(calls[p].arg.segs))
    /\ Selected(calls[p].arg.obj, Front(calls[p].arg.segs)) = Null
    /\ calls[p].result = Throw(Error(<<"Path resolution failed at ", "c">>))

\* the last segment is indexed and the value reached has no such property, or
\* has one that is not an array
IndexMisses(obj, segs) ==
  /\ Len(segs) >= 1
  /\ Last(segs).index >= 0
  /\ Covered(obj, Front(segs))
  /\ ~IsNullish(Selected(obj, Front(segs)))
  /\ FieldOf(Selected(obj, Front(segs)), Last(segs).name).t # "arr"

\* C24: for an indexed segment name[i], if the value reached so far has no
\* property name, or the property is not an array, getValueFromPath fails with a
\* path-resolution error for that segment and returns no value.
C24_IndexedMissFails ==
  \A p \in PathCalls :
    IndexMisses(calls[p].arg.obj, calls[p].arg.segs) =>
      calls[p].result =
        Throw(Error(<<"Path resolution failed at ", SegmentText(Last(calls[p].arg.segs))>>))

MapCalls == {p \in DOMAIN calls : calls[p].kind = "map"}
\* the mapping value of an entry after "$index" has given way to the index
Substituted(value, index) ==
  IF value.t = "str" /\ "$index" \in Range(value.p)
  THEN LET j == CHOOSE m \in DOMAIN value.p :
                  value.p[m] = "$index" /\ \A k \in 1..(m - 1) : value.p[k] # "$index"
       IN [value EXCEPT !.p[j] = IF index < 0 THEN "0" ELSE ToString(index)]
  ELSE value
Prefixes == {"context", "output", "input"}
PrefixOf(value) ==
  IF value.t = "str" /\ Len(value.p) >= 2 /\ value.p[1] \in Prefixes /\ value.p[2] = "."
  THEN value.p[1] ELSE "none"
\* the one root a prefix stands for
RootOf(prefix, previousOutput, executionContext) ==
  CASE prefix = "context" -> executionContext
    [] prefix = "output" -> previousOutput.o.output
    [] prefix = "input" -> previousOutput.o.input
\* what an entry resolves to under the routing rule
Routed(value, a) ==
  LET path == Substituted(value, a.index)
  IN getValueFromPath(RootOf(PrefixOf(path), a.previousOutput, a.executionContext),
                      SubSeq(path.p, 3, Len(path.p)))

\* C25: a mapping value is routed by its prefix after $index has been
\* substituted: context. resolves the remainder against the execution context,
\* output. against the preceding step's output only, input. against the
\* accumulated input; the mapped input holds that value, and a failed call
\* failed with the error of one entry's own root.
C25_RoutedByPrefix ==
  \A p \in MapCalls :
    LET a == calls[p].arg
        routed == {j \in DOMAIN a.inputMapping :
                     PrefixOf(Substituted(a.inputMapping[j].value, a.index)) # "none"}
    IN IF calls[p].result.ok
       THEN \A j \in routed :
              /\ Routed(a.inputMapping[j].value, a).ok
              /\ calls[p].result.v.o[a.inputMapping[j].key] = Routed(a.inputMapping[j].value, a).v
       ELSE (\A j \in DOMAIN a.inputMapping : a.inputMapping[j].value.t = "str") =>
              \E j \in routed : Routed(a.inputMapping[j].value, a) = calls[p].result

\* one mapping with all three prefixes resolved, each from its own root
C25_Witness ==
  \E p \in MapCalls :
    /\ calls[p].result.ok
    /\ calls[p].arg.index = 1
    /\ \E j, k \in DOMAIN calls[p].arg.inputMapping :
         /\ PrefixOf(calls[p].arg.inputMapping[j].value) = "context"
         /\ calls[p].result.v.o[calls[p].arg.inputMapping[j].key] = Num(4)
         /\ calls[p].arg.inputMapping[k].value.t = "str"
         /\ "$index" \in Range(calls[p].arg.inputMapping[k].value.p)
         /\ calls[p].result.v.o[calls[p].arg.inputMapping[k].key] = Num(22)

\* a mapping value as the literal it is
LiteralOf(value) == IF value.t = "str" THEN Str(JoinTokens(value.p)) ELSE value

\* C26: a mapping value without a recognized prefix is a literal: whether it is
\* a string or not, the target field receives exactly that value and resolving
\* it does not fail.
C26_LiteralCopied ==
  \A p \in MapCalls :
    LET a == calls[p].arg
    IN (\A j \in DOMAIN a.inputMapping : PrefixOf(a.inputMapping[j].value) = "none") =>
         /\ calls[p].result.ok
         /\ \A j \in DOMAIN a.inputMapping :
              calls[p].result.v.o[a.inputMapping[j].key] = LiteralOf(a.inputMapping[j].value)

FlowRuns == {p \in DOMAIN calls : calls[p].kind = "workflow" /\ calls[p].workflow.id # ""}
MappingKeys(step) == {step.inputMapping[j].key : j \in DOMAIN step.inputMapping}
FansOut(step) ==
  \E j \in DOMAIN step.inputMapping :
    step.inputMapping[j].value.t = "str" /\ "$index" \in Range(step.inputMapping[j].value.p)
StepOf(c, k) == c.workflow.steps[k + 1]
Completed(c) == 0..(c.index - 1)
ContextEntry(c, k) == c.executionContext.o[ContextKey(k)]

\* C27: in a non-fan-out step the executor is called with exactly the mapped
\* input: the payload has the keys of the step's inputMapping and no other, and
\* is what the step's context entry records as its input.
C27_PayloadIsMappedInput ==
  \A p \in FlowRuns :
    \A j \in DOMAIN calls[p].log :
      LET ev == calls[p].log[j]
      IN (ev.e = "call" /\ ~FansOut(StepOf(calls[p], ev.step))) =>
           /\ ev.data.t = "obj"
           /\ DOMAIN ev.data.o = MappingKeys(StepOf(calls[p], ev.step))
           /\ ev.step \in Completed(calls[p]) => ev.data = ContextEntry(calls[p], ev.step).o.input

\* the payload the tool of plain step k was called with, cut down to the
\* mapping's keys
MappedAt(c, k) ==
  LET payload == EventsAt(c.log, "call", k)[1].data
  IN Obj([key \in MappingKeys(StepOf(c, k)) |-> payload.o[key]])
\* what a context. mapping value of a later step found
ReadsContext(c, ev) ==
  \A j \in DOMAIN StepOf(c, ev.step).inputMapping :
    LET entry == StepOf(c, ev.step).inputMapping[j]
    IN (entry.value.t = "str" /\ entry.value.p[1] = "context") =>
         Ok(ev.data.o[entry.key]) =
           getValueFromPath(c.executionContext, SubSeq(entry.value.p, 3, Len(entry.value.p)))
ContextRecordsSteps(c) ==
  /\ DOMAIN c.executionContext.o = {ContextKey(k) : k \in Completed(c)}
  /\ \A k \in Completed(c) :
       /\ DOMAIN ContextEntry(c, k).o = {"input", "output"}
       /\ IF FansOut(StepOf(c, k))
          THEN ContextEntry(c, k).o.output = Arr(DataOf(EventsAt(c.log, "return", k)))
          ELSE /\ ContextEntry(c, k).o.output = EventsAt(c.log, "return", k)[1].data
               /\ ContextEntry(c, k).o.input = MappedAt(c, k)
  /\ \A j \in DOMAIN c.log : c.log[j].e = "call" => ReadsContext(c, c.log[j])
ContextKeepsEntries(p) ==
  (p \in FlowRuns /\ calls'[p].kind = "workflow") =>
    /\ \A k \in Completed(calls[p]) : ContextEntry(calls'[p], k) = ContextEntry(calls[p], k)
    /\ (calls[p].fanout /\ calls'[p].index > calls[p].index) =>
         ContextEntry(calls'[p], calls[p].index).o.input = calls[p].currentOutput.o.input

\* C28: during a run the execution context holds exactly the entries step_0 ..
\* step_k of the steps completed so far; a plain step's entry is {input: its
\* mapped input, output: its tool output}, a fan-out step's entry is {input: the
\* accumulated input before the step, output: the results in order}; an entry is
\* never changed or removed, and a later step reads it through context.step_j.
C28_ContextPerStep ==
  /\ [](\A p \in FlowRuns : ContextRecordsSteps(calls[p]))
  /\ [][\A p \in DOMAIN calls : ContextKeepsEntries(p)]_vars

\* the third step of the context workflow has read step_0's entry, written
\* before the fan-out step's
C28_Witness ==
  \E p \in FlowRuns :
    /\ calls[p].workflow.name = "context"
    /\ calls[p].pc = "done"
    /\ calls[p].index = 3
    /\ Len(ContextEntry(calls[p], 1).o.output.a) = 2
    /\ EventsAt(calls[p].log, "call", 2)[1].data.o.title = Str("A")

\* { ...a, ...b, ...c } of objects, the later one winning a shared key
Fields(v) == IF v.t = "obj" THEN v.o ELSE <<>>
MergeLastWins(a, b, c) ==
  Obj([k \in DOMAIN Fields(a) \cup DOMAIN Fields(b) \cup DOMAIN Fields(c) |->
         IF k \in DOMAIN Fields(c) THEN Fields(c)[k]
         ELSE IF k \in DOMAIN Fields(b) THEN Fields(b)[k] ELSE Fields(a)[k]])
LastReturn(c) == EventsOf(c.log, "return")[Len(EventsOf(c.log, "return"))].data
PlainStepCompletes(p) ==
  /\ p \in FlowRuns
  /\ calls[p].pc = "handler"
  /\ ~calls[p].fanout
  /\ calls'[p].kind = "workflow"
  /\ calls'[p].index = calls[p].index + 1
\* the fields the steps so far have produced or the caller supplied, each with
\* the value of its last writer
Visible(c) ==
  /\ \A f \in DOMAIN Fields(c.initialInput) :
       (\A k \in Completed(c) : f \notin DOMAIN Fields(ContextEntry(c, k).o.output)) =>
         c.currentOutput.o.input.o[f] = c.initialInput.o[f]
  /\ \A j \in Completed(c) : \A f \in DOMAIN Fields(ContextEntry(c, j).o.output) :
       (\A k \in Completed(c) : k > j => f \notin DOMAIN Fields(ContextEntry(c, k).o.output)) =>
         c.currentOutput.o.input.o[f] = ContextEntry(c, j).o.output.o[f]
  /\ c.index > 0 => c.currentOutput.o.output = ContextEntry(c, c.index - 1).o.output

BasePath(step) ==
  LET j == CHOOSE m \in DOMAIN step.inputMapping :
             /\ step.inputMapping[m].value.t = "str"
             /\ "$index" \in Range(step.inputMapping[m].value.p)
             /\ \A k \in 1..(m - 1) : ~(step.inputMapping[k].value.t = "str"
                                         /\ "$index" \in Range(step.inputMapping[k].value.p))
      path == step.inputMapping[j].value.p
      at == CHOOSE m \in DOMAIN path : path[m] = "$index" /\ \A k \in 1..(m - 1) : path[k] # "$index"
  IN SubSeq(path, 1, at - 2)
\* the run stands at a fan-out step whose base path holds something that is
\* not an array
BaseIsNoArray(c) ==
  /\ c.index < Len(c.workflow.steps)
  /\ FansOut(StepOf(c, c.index))
  /\ getValueFromPath(c.currentOutput, BasePath(StepOf(c, c.index))).ok
  /\ getValueFromPath(c.currentOutput, BasePath(StepOf(c, c.index))).v.t # "arr"

\* what a completed fan-out step k found at its base path: its context entry
\* has the accumulated input it started from, the entry before it the output
BaseOfCompleted(c, k) ==
  getValueFromPath(Obj([input |-> ContextEntry(c, k).o.input,
                        output |-> IF k = 0 THEN Null ELSE ContextEntry(c, k - 1).o.output]),
                   BasePath(StepOf(c, k)))

\* C30: in a fan-out step, if the value at the base path is not an array, the
\* step fails with the expected-array error that names the base path, and the
\* step's tool is not invoked; no fan-out step completes over such a value.
C30_ExpectedArray ==
  \A p \in FlowRuns :
    /\ BaseIsNoArray(calls[p]) =>
         /\ calls[p].pc = "failed"
         /\ calls[p].result =
              Throw(Error(<<"Workflow execution failed at step ", ToString(calls[p].index), ": ",
                            "Expected an array at path ",
                            JoinTokens(BasePath(StepOf(calls[p], calls[p].index)))>>))
         /\ EventsAt(calls[p].log, "call", calls[p].index) = <<>>
    /\ \A k \in Completed(calls[p]) :
         FansOut(StepOf(calls[p], k)) =>
           BaseOfCompleted(calls[p], k).ok /\ BaseOfCompleted(calls[p], k).v.t = "arr"

\* the second step fans out over input.topic, a string
C30_Witness ==
  \E p \in FlowRuns :
    /\ calls[p].workflow.name = "string_base"
    /\ calls[p].index = 1
    /\ BaseIsNoArray(calls[p])
    /\ calls[p].pc = "failed"

\* the value a base path names under the root its prefix stands for
RootedBase(c, k, currentOutput) ==
  LET base == BasePath(StepOf(c, k))
  IN getValueFromPath(RootOf(base[1], currentOutput, c.executionContext),
                      SubSeq(base, 3, Len(base)))
HasArray(r) == r.ok /\ r.v.t = "arr"
\* the current output a completed step k started from
StartedFrom(c, k) ==
  Obj([input |-> ContextEntry(c, k).o.input,
       output |-> IF k = 0 THEN Null ELSE ContextEntry(c, k - 1).o.output])

\* C31: a fan-out step finds its array under the root its $index mapping value
\* names, input., output. or context.: when that root holds an array at the
\* base path, the step invokes its tool for the elements of that array, and a
\* completed step has one result per element.
C31_FanOutUnderEachRoot ==
  \A p \in FlowRuns :
    LET c == calls[p]
    IN /\ (/\ c.index < Len(c.workflow.steps)
           /\ FansOut(StepOf(c, c.index))
           /\ BasePath(StepOf(c, c.index))[1] \in Prefixes
           /\ HasArray(RootedBase(c, c.index, c.currentOutput))
           /\ RootedBase(c, c.index, c.currentOutput).v.a # <<>>) =>
            EventsAt(c.log, "call", c.index) # <<>>
       /\ \A k \in Completed(c) :
            (/\ FansOut(StepOf(c, k))
             /\ BasePath(StepOf(c, k))[1] \in Prefixes
             /\ HasArray(RootedBase(c, k, StartedFrom(c, k)))) =>
              Len(ContextEntry(c, k).o.output.a) = Len(RootedBase(c, k, StartedFrom(c, k)).v.a)

\* the output of the last step in definition order, as the history has it
LastStepOutput(c) ==
  LET last == Len(c.workflow.steps) - 1
  IN IF FansOut(StepOf(c, last))
     THEN Arr(DataOf(EventsAt(c.log, "return", last)))
     ELSE EventsAt(c.log, "return", last)[1].data
\* what the reader has taken off the stream
Delivered(c) == DataOf(EventsOf(c.log, "chunk"))

\* C32: when all steps have completed, executeWorkflow returns the output of the
\* last step (the results array of a fan-out step) as a closed stream: what the
\* reader has taken and what is still queued are together that one value, once,
\* and no earlier step's output is in it.
C32_ResultIsLastOutput ==
  \A p \in FlowRuns :
    calls[p].pc = "done" =>
      /\ calls[p].index = Len(calls[p].workflow.steps)
      /\ calls[p].result.ok
      /\ calls[p].result.v.closed
      /\ Delivered(calls[p]) \o calls[p].result.v.chunks = <<LastStepOutput(calls[p])>>

\* a run that ended on a fan-out step, its stream read to the end
C32_Witness ==
  \E p \in FlowRuns :
    /\ calls[p].pc = "done"
    /\ calls[p].workflow.name = "input_fan_out"
    /\ calls[p].result.v.chunks = <<>>
    /\ Len(Delivered(calls[p])) = 1
    /\ Len(Delivered(calls[p])[1].a) = 2

\* the position of an invocation in a run: its step, then its element
Before(x, y) == x.step < y.step \/ (x.step = y.step /\ x.elem < y.elem)
NeverAgain(c) ==
  \A j, k \in DOMAIN EventsOf(c.log, "call") :
    j < k => Before(EventsOf(c.log, "call")[j], EventsOf(c.log, "call")[k])

\* C33: provided every handler invocation eventually completes, every started
\* run of executeWorkflow eventually ends, with its result or with the first
\* step failure; and a run invokes no step and no element a second time.
C33_RunsEnd ==
  /\ \A p \in SyncCaller :
       (calls[p].kind = "workflow" /\ calls[p].pc = "handler")
         ~> (calls[p].kind = "workflow" /\ calls[p].pc \in {"done", "failed"})
  /\ [](\A p \in FlowRuns : NeverAgain(calls[p]))

\* a run of three steps, one of them a fan-out over two elements, has ended
C33_Witness ==
  \E p \in FlowRuns :
    /\ calls[p].pc = "done"
    /\ calls[p].workflow.name = "context"
    /\ Len(EventsOf(calls[p].log, "return")) = 4

Received == {n \in Requests : n <= calls[Host].received}
SendsFor(n) == SelectSeq(calls[Host].sends, LAMBDA s : s.req = n)
ErrorResponse(n) == [status |-> "error", message |-> calls[n].result.err.msg]

\* C34: a message whose engine operation has failed, and a message of an
\* unsupported type, is answered to its session with status error and the
\* error's message, and no success response is sent for it.
C34_FailureIsAnError ==
  \A n \in Received :
    calls[n].pc = "failed" =>
      /\ \E j \in DOMAIN SendsFor(n) :
           /\ SendsFor(n)[j].sessionId = calls[Host].requests[n].sessionId
           /\ SendsFor(n)[j].message = ErrorResponse(n)
      /\ \A j \in DOMAIN SendsFor(n) : SendsFor(n)[j].message.status # "success"

\* a workflow run has failed at its second step, after the first handler had
\* returned, and the error went out on an open socket; another message was of
\* an unsupported type
C34_Witness ==
  \E n, m \in Received :
    /\ calls[n].kind = "workflow"
    /\ calls[n].pc = "failed"
    /\ EventsOf(calls[n].log, "return") # <<>>
    /\ \E j \in DOMAIN SendsFor(n) : SendsFor(n)[j].ws # 0
    /\ calls[m].kind = "unsupported"
    /\ SendsFor(m) # <<>>

Ended(n) == calls[n].pc \in {"done", "failed"}
StaysConnected(n) == calls[Host].sockets[calls[Host].requests[n].ws].readyState = "OPEN"
\* what the connections have received: the sends that found an open socket
ReceivedBy(w) == SelectSeq(calls[Host].sends, LAMBDA s : s.ws = w)
Correlated(n) ==
  /\ ~Ended(n) => SendsFor(n) = <<>>
  /\ \A j \in DOMAIN SendsFor(n) : SendsFor(n)[j].ws \in {0, calls[Host].requests[n].ws}
  /\ (Ended(n) /\ StaysConnected(n)) =>
       /\ Len(SendsFor(n)) = 1
       /\ SendsFor(n)[1].ws = calls[Host].requests[n].ws
       /\ SendsFor(n)[1].message.status = IF calls[n].pc = "done" THEN "success" ELSE "error"

\* C35: every request of a client that stays connected gets exactly one
\* terminal response once its operation has ended, on the connection it
\* arrived on, and no other connection receives it, also when the requests of
\* several clients are in progress at the same time.
C35_ResponseOnItsConnection == \A n \in Received : Correlated(n)

\* the same, as long as no two connections have drawn the same client id
DistinctClientIds ==
  \A v, w \in Sockets :
    (v # w /\ calls[Host].sockets[v].readyState # "NONE" /\ calls[Host].sockets[w].readyState # "NONE")
      => calls[Host].sockets[v].clientId # calls[Host].sockets[w].clientId
CorrelatedUnderDistinctIds == DistinctClientIds => \A n \in Received : Correlated(n)
\* two requests of two clients in progress together, both answered on their own connection
InterleavedAnswered ==
  /\ DistinctClientIds
  /\ calls[Host].received = 2
  /\ calls[Host].requests[1].ws # calls[Host].requests[2].ws
  /\ Ended(1) /\ Ended(2) /\ StaysConnected(1) /\ StaysConnected(2)
  /\ calls[1].kind = "workflow" /\ calls[Host].sends[1].req = 2

\* the stored workflows only WorkflowManager.createWorkflow can have stored
ManagerCreated(workflow) ==
  \E definition \in WorkflowCatalog \ RegistryWorkflows :
    /\ workflow.name = definition.name
    /\ workflow.description = definition.description
    /\ workflow.steps = definition.steps
ToolMissing(event) == \E toolName \in ToolNames : event.data = Error(<<"Tool ", toolName, " not found">>)

\* C36: a workflow created through WorkflowManager.createWorkflow keeps all the
\* tools of its steps in the registry, whatever is registered or created
\* afterwards, and no run of it fails because a tool is missing.
C36_CreatedWorkflowKeepsItsTools ==
  /\ \A j \in DOMAIN workflows :
       ManagerCreated(workflows[j]) =>
         \A k \in DOMAIN workflows[j].steps : workflows[j].steps[k].toolName \in DOMAIN tools
  /\ \A p \in DOMAIN calls :
       (calls[p].kind = "workflow" /\ ManagerCreated(calls[p].workflow)) =>
         \A j \in DOMAIN EventsOf(calls[p].log, "throw") : ~ToolMissing(EventsOf(calls[p].log, "throw")[j])

\* a run of a workflow the manager has created calls the tool of its second step
C36_Witness ==
  \E p \in DOMAIN calls :
    /\ calls[p].kind = "workflow"
    /\ ManagerCreated(calls[p].workflow)
    /\ calls[p].pc = "handler"
    /\ calls[p].index = 1

\* C37: executeWorkflow leaves the object passed as initial input as it was:
\* no step of a run, and neither its return nor its failure, changes the
\* keys or the values of the caller's object.
C37_InitialInputUntouched ==
  [][\A p \in DOMAIN calls :
       (calls[p].kind = "workflow" /\ calls'[p].kind = "workflow")
         => calls'[p].initialInput = calls[p].initialInput]_vars

\* the fan-out steps of a run that found an empty array
EmptyFanOuts(c) ==
  {k \in 0..(Len(c.workflow.steps) - 1) :
     \E j \in DOMAIN EventsAt(c.log, "fanout", k) : EventsAt(c.log, "fanout", k)[j].data = Arr(<<>>)}

\* C38: a fan-out step over an empty array calls its tool for no element and
\* does not fail; the empty results array is the step's output and the output
\* of its context entry, and the run goes on with the next step, or returns
\* when there is none.
C38_EmptyFanOutGoesOn ==
  \A p \in FlowRuns :
    \A k \in EmptyFanOuts(calls[p]) :
      /\ EventsAt(calls[p].log, "call", k) = <<>>
      /\ EventsAt(calls[p].log, "throw", k) = <<>>
      /\ calls[p].index > k
      /\ ContextKey(k) \in DOMAIN calls[p].executionContext.o
      /\ GetProp(ContextEntry(calls[p], k), "output") = Arr(<<>>)
      /\ calls[p].index = k + 1 => GetProp(calls[p].currentOutput, "output") = Arr(<<>>)
      /\ IF k + 1 < Len(calls[p].workflow.steps)
         THEN \E j \in DOMAIN calls[p].log :
                calls[p].log[j].step = k + 1 /\ calls[p].log[j].e \in {"call", "throw", "fanout"}
         ELSE /\ calls[p].pc = "done"
              /\ calls[p].result.v.closed
              /\ Delivered(calls[p]) \o calls[p].result.v.chunks = <<Arr(<<>>)>>

\* after a fan-out over no idea the third step's tool has been called
C38_Witness ==
  \E p \in FlowRuns :
    /\ calls[p].workflow.name = "fan_out_then"
    /\ 1 \in EmptyFanOuts(calls[p])
    /\ EventsAt(calls[p].log, "call", 2) # <<>>
    /\ calls[p].pc = "done"

\* a mapping value that reads what step k of a run cannot have yet: the output
\* at the first step, or something inside the context entry of step k or later
AheadKeys(c, k) == {ContextKey(j) : j \in k..Len(c.workflow.steps)}
ReadsAheadPath(c, k, path) ==
  \/ k = 0 /\ Len(path) >= 3 /\ path[1] = "output" /\ path[2] = "."
  \/ Len(path) >= 5 /\ path[1] = "context" /\ path[2] = "." /\ path[3] \in AheadKeys(c, k)
       /\ path[4] = "."
ReadsAhead(c, k) ==
  \E j \in DOMAIN StepOf(c, k).inputMapping :
    /\ StepOf(c, k).inputMapping[j].value.t = "str"
    /\ ReadsAheadPath(c, k, StepOf(c, k).inputMapping[j].value.p)
PathCause(c, k) ==
  /\ c.pc = "failed"
  /\ Len(c.result.err.msg) = 5
  /\ SubSeq(c.result.err.msg, 1, 4) =
       <<"Workflow execution failed at step ", ToString(k), ": ", "Path resolution failed at ">>
FailsUnresolved(c, k) ==
  /\ c.index <= k
  /\ EventsAt(c.log, "call", k) = <<>>
  /\ c.index = k => PathCause(c, k)
Steps(c) == 0..(Len(c.workflow.steps) - 1)

\* C39 as stated: every step with a mapping that reads ahead makes the run fail
\* at that step with a path-resolution cause, the tool not invoked.
C39_AsStated ==
  \A p \in FlowRuns : \A k \in Steps(calls[p]) :
    ReadsAhead(calls[p], k) => FailsUnresolved(calls[p], k)

BaseReadsAhead(c, k) == ReadsAheadPath(c, k, BasePath(StepOf(c, k)))
FannedOut(c, k) ==
  {EventsAt(c.log, "fanout", k)[j].data : j \in DOMAIN EventsAt(c.log, "fanout", k)}

\* C39: a step that reads ahead never has its tool invoked. A plain step, and a
\* fan-out step whose base path reads ahead or whose array has an element,
\* makes the run fail at that step with a path-resolution cause; a fan-out
\* step over an empty array resolves nothing and completes, and over a
\* non-array it fails as a fan-out over a non-array does.
C39_ReadAheadFails ==
  \A p \in FlowRuns : \A k \in Steps(calls[p]) :
    ReadsAhead(calls[p], k) =>
      /\ EventsAt(calls[p].log, "call", k) = <<>>
      /\ (~FansOut(StepOf(calls[p], k)) \/ BaseReadsAhead(calls[p], k))
           => FailsUnresolved(calls[p], k)
      /\ (\E array \in FannedOut(calls[p], k) : array # Arr(<<>>))
           => FailsUnresolved(calls[p], k)
      /\ calls[p].index > k => FannedOut(calls[p], k) = {Arr(<<>>)}

\* a fan-out step with elements to handle has failed on the context entry it
\* reads ahead, its tool not invoked
C39_Witness ==
  \E p \in FlowRuns :
    /\ calls[p].workflow.name = "fan_out_future"
    /\ FannedOut(calls[p], 1) # {}
    /\ PathCause(calls[p], 1)
    /\ EventsAt(calls[p].log, "call", 1) = <<>>

====
